---- MODULE Spec2Model ----
(***************************************************************************)
(* A model of the experiment execution and evaluation pipeline of gaia:    *)
(*   - BatchExperimentRunner (src/src/gaia/eval/batch_experiment.py)       *)
(*   - RagEvaluator           (src/src/gaia/eval/eval.py)                  *)
(*                                                                         *)
(* The runner is modelled as a state machine that takes one step per       *)
(* backend call (the only points where the environment decides anything);  *)
(* the evaluator's pass/fail engine is a pure function and is modelled as  *)
(* an operator applied to inputs drawn from bounded sets.                  *)
(*                                                                         *)
(* Conventions                                                             *)
(*   - Python None is <<>>, a present value s is <<s>> (see None / Some).  *)
(*   - A Python dict is a function from key strings; d.get(k, dflt) is Get.*)
(*   - Costs are integers (a fixed fraction of a dollar) so sums are exact.*)
(*   - Writing the result file is assumed to succeed (no I/O failure).     *)
(***************************************************************************)
EXTENDS Integers, Sequences, FiniteSets, TLC

(***************************************************************************)
(* Bounds of the model                                                     *)
(***************************************************************************)
\* most work items handed to one run_experiment
MaxItems == 3
\* most queries of one qa_raw work item in a direct run_experiment call
MaxQueries == 2
\* most backend calls one run_experiment call may need (limits the item lists)
MaxCalls == 6
\* most experiments of a catalog
MaxExperiments == 2
\* most backend calls one run_all_experiments call may need (limits catalog and input)
MaxBatchCalls == 7
\* similarity scores and thresholds are the multiples 0/MaxSim .. MaxSim/MaxSim
MaxSim == 3
\* most QA results of a result document handed to the judge
MaxQuestions == 2
\* a judge response is made of at most this many fragments
MaxFragments == 2
\* most evaluation files of a directory
MaxEvalFiles == 2
\* most characters of an experiment name
MaxNameLen == 2

(***************************************************************************)
(* Python values                                                           *)
(***************************************************************************)
None == <<>>

Some(s) == <<s>>

\* truthiness of an Optional[str]: None and "" are falsy
Truthy(e) == e # None /\ e[1] # ""

\* dict.get(key, default)
Get(d, key, default) == IF key \in DOMAIN d THEN d[key] ELSE default

UsageKeys == {"input_tokens", "output_tokens", "total_tokens"}

CostKeys == {"input_cost", "output_cost", "total_cost"}

ZeroUsage == [k \in UsageKeys |-> 0]

ZeroCost == [k \in CostKeys |-> 0]

\* "for key in total: total[key] += part.get(key, 0)", guarded by "if part:"
Accumulate(total, part) ==
    IF DOMAIN part = {} THEN total
    ELSE [k \in DOMAIN total |-> total[k] + Get(part, k, 0)]

\* str.lower() on the spellings that occur in the model
Lower(s) ==
    CASE s = "Claude" -> "claude"
      [] s = "LEMONADE" -> "lemonade"
      [] s = "GPT" -> "gpt"
      [] s = "Excellent" -> "excellent"
      [] s = "GOOD" -> "good"
      [] s = "Fair" -> "fair"
      [] s = "Poor" -> "poor"
      [] s = "POOR" -> "poor"
      [] s = "Overloaded" -> "overloaded"
      [] s = "OVERLOADED" -> "overloaded"
      [] OTHER -> s

RECURSIVE Join(_)
\* "; ".join(parts)
Join(parts) ==
    IF parts = <<>> THEN ""
    ELSE IF Len(parts) = 1 THEN parts[1]
    ELSE parts[1] \o "; " \o Join(Tail(parts))

(***************************************************************************)
(* The backend (ModelClient): a completion call either returns a reply     *)
(* with usage and cost, or raises an exception carrying a message.         *)
(***************************************************************************)
Replies ==
    { [content |-> "answer",
       usage |-> [input_tokens |-> 3, output_tokens |-> 2, total_tokens |-> 5],
       cost |-> [input_cost |-> 3, output_cost |-> 4, total_cost |-> 7]],
      [content |-> "answer",
       usage |-> [input_tokens |-> 1, output_tokens |-> 1, total_tokens |-> 2],
       cost |-> [input_cost |-> 1, output_cost |-> 2, total_cost |-> 3]] }

\* str(e) of the exception of a failed call; an exception may have no message
Messages == {"", "overloaded"}

Outcomes ==
    [ok : {TRUE}, reply : Replies] \cup [ok : {FALSE}, msg : Messages]

\* the outcomes explored across a whole catalog: one reply and one failure per call
BatchOutcomes ==
    { out \in Outcomes :
        IF out.ok THEN out.reply.usage.total_tokens = 5 ELSE out.msg = "overloaded" }

(***************************************************************************)
(* Experiment configurations and work items                                *)
(***************************************************************************)
\* ValidExperimentType, were any non-empty task kind accepted
ValidExperimentType_NonEmpty(t) == t # ""

\* ExperimentConfig.__post_init__: construction fails for another task kind
ValidExperimentType(t) == t \in {"qa", "summarization"}

\* the six summary components, in the order of the prompt dictionary
Components ==
    << "executive_summary", "detailed_summary", "action_items",
       "key_decisions", "participants", "topics_discussed" >>

\* the first n queries of a query list
QueryList(n) == [k \in 1..n |-> "q" \o ToString(k)]

QaItems == { [type |-> "qa", query |-> q, ground_truth |-> "gt"] : q \in {"q1", "q2"} }

QaRawItems ==
    { [type |-> "qa_raw", transcript |-> "t", source_file |-> "f", queries |-> QueryList(n)] :
        n \in 1..MaxQueries }

SumItems == { [type |-> "summarization", transcript |-> "t", source_file |-> "f"] }

\* a work item of a kind the runner has no branch for
OtherItems == { [type |-> "image"] }

AllItems == QaItems \cup QaRawItems \cup SumItems \cup OtherItems

SupportedKinds == {"qa", "qa_raw", "summarization"}

\* the number of completion calls the runner issues for a work item
NumCalls(item) ==
    CASE item.type = "qa" -> 1
      [] item.type = "qa_raw" -> Len(item.queries)
      [] item.type = "summarization" -> Len(Components)
      [] OTHER -> 0

RECURSIVE TotalCalls(_)
TotalCalls(items) ==
    IF items = <<>> THEN 0 ELSE NumCalls(Head(items)) + TotalCalls(Tail(items))

ItemLists ==
    { l \in UNION { [1..n -> AllItems] : n \in 0..MaxItems } : TotalCalls(l) <= MaxCalls }

\* the configurations handed directly to run_experiment
DirectExperiments ==
    [name : {<< "e", " ", "1" >>},
     llm_type : {"Claude", "lemonade", "gpt"},
     experiment_type : {"qa", "summarization"}]

(***************************************************************************)
(* The result file name (run_experiment, "Generate safe filename")         *)
(***************************************************************************)
Alnum == {"a", "b", "e", "1", "2"}

RECURSIVE KeepSafe(_)
\* c for c in name if c.isalnum() or c in (" ", "-", "_")
KeepSafe(name) ==
    IF name = <<>> THEN <<>>
    ELSE IF Head(name) \in Alnum \cup {" ", "-", "_"}
         THEN <<Head(name)>> \o KeepSafe(Tail(name))
         ELSE KeepSafe(Tail(name))

RECURSIVE RStrip(_)
\* str.rstrip()
RStrip(cs) ==
    IF cs = <<>> THEN <<>>
    ELSE IF cs[Len(cs)] = " " THEN RStrip(SubSeq(cs, 1, Len(cs) - 1))
    ELSE cs

RECURSIVE Underscored(_)
\* str.replace(" ", "_"), as a string
Underscored(cs) ==
    IF cs = <<>> THEN ""
    ELSE (IF Head(cs) = " " THEN "_" ELSE Head(cs)) \o Underscored(Tail(cs))

\* mutant: nothing is stripped from the end
SafeName_NoStrip(name) == Underscored(KeepSafe(name))

SafeName(name) == Underscored(RStrip(KeepSafe(name)))

ResultPath(name) == SafeName(name) \o ".experiment.json"

(***************************************************************************)
(* The pass/fail decision (RagEvaluator.determine_pass_fail).              *)
(*                                                                         *)
(* A parsed JSON value is [kind |-> "str", v |-> s] or                     *)
(* [kind |-> "dict", v |-> d] with d a function from keys to JSON values.  *)
(* Weights are in hundredths and the normalized score is the fraction      *)
(* num/den, so the comparison with 0.6 is exact; for every combination of  *)
(* present criteria and points it agrees with the floating-point           *)
(* comparison the code makes.                                              *)
(***************************************************************************)
Str(s) == [kind |-> "str", v |-> s]

Dict(d) == [kind |-> "dict", v |-> d]

\* the criteria of the Q&A rubric, in the order of the weights dictionary
Criteria == << "correctness", "completeness", "conciseness", "relevance" >>

\* weights, in hundredths
Weight(c) ==
    CASE c = "correctness" -> 40
      [] c = "completeness" -> 30
      [] c = "conciseness" -> 15
      [] OTHER -> 15

\* score_map.get(rating, 1)
Score(rating) ==
    CASE rating = "excellent" -> 4
      [] rating = "good" -> 3
      [] rating = "fair" -> 2
      [] rating = "poor" -> 1
      [] OTHER -> 1

\* SimilarityPass, were the comparison strict
SimilarityPass_Strict(similarity, threshold) == similarity > threshold

\* similarity >= threshold
SimilarityPass(similarity, threshold) == similarity >= threshold

\* "if not claude_analysis": None and the empty dict are falsy
NoAnalysis(claude_analysis) == claude_analysis = None \/ DOMAIN claude_analysis[1] = {}

\* claude_analysis[criterion].get("rating", "").lower() raises unless the criterion is a
\* dict whose rating is a string
RatingsRaise(analysis) ==
    \E k \in 1..Len(Criteria) :
        /\ Criteria[k] \in DOMAIN analysis
        /\ \/ analysis[Criteria[k]].kind # "dict"
           \/ Get(analysis[Criteria[k]].v, "rating", Str("")).kind # "str"

\* RatingOf, were the rating not lower-cased
RatingOf_NoLower(analysis, criterion) == Get(analysis[criterion].v, "rating", Str("")).v

\* claude_analysis[criterion].get("rating", "").lower()
RatingOf(analysis, criterion) == Lower(Get(analysis[criterion].v, "rating", Str("")).v)

\* the ratings dictionary
ExtractRatings(analysis) ==
    [c \in { Criteria[k] : k \in 1..Len(Criteria) } \cap DOMAIN analysis |->
        RatingOf(analysis, c)]

RECURSIVE TotalScore(_, _)
\* total_score after the first k criteria of the weights dictionary
TotalScore(ratings, k) ==
    IF k = 0 THEN 0
    ELSE TotalScore(ratings, k - 1)
         + (IF Criteria[k] \in DOMAIN ratings
            THEN Score(ratings[Criteria[k]]) * Weight(Criteria[k])
            ELSE 0)

\* MaxPossible, were the weights of all four criteria counted
MaxPossible_AllCriteria(ratings, k) == 400

RECURSIVE MaxPossible(_, _)
\* max_possible after the first k criteria of the weights dictionary
MaxPossible(ratings, k) ==
    IF k = 0 THEN 0
    ELSE MaxPossible(ratings, k - 1)
         + (IF Criteria[k] \in DOMAIN ratings THEN 4 * Weight(Criteria[k]) ELSE 0)

\* normalized_score = total_score / max_possible if max_possible > 0 else 0
NormalizedScore(ratings) ==
    IF MaxPossible(ratings, Len(Criteria)) > 0
    THEN [num |-> TotalScore(ratings, Len(Criteria)),
          den |-> MaxPossible(ratings, Len(Criteria))]
    ELSE [num |-> 0, den |-> 1]

\* normalized_score >= 0.6
AtLeastSixTenths(score) == 10 * score.num >= 6 * score.den

\* CorrectnessAcceptable, were "fair" not acceptable
CorrectnessAcceptable_NoFair(ratings) ==
    Get(ratings, "correctness", "poor") \in {"good", "excellent"}

CorrectnessAcceptable_DefaultFair(ratings) ==
    Get(ratings, "correctness", "fair") \in {"fair", "good", "excellent"}

\* correctness_acceptable
CorrectnessAcceptable(ratings) ==
    Get(ratings, "correctness", "poor") \in {"fair", "good", "excellent"}

\* "Override: fail if correctness is poor regardless of other factors"
CorrectnessVeto(ratings) == Get(ratings, "correctness", "") = "poor"

\* the verdict of the comprehensive branch
ComprehensiveVerdict(similarity, threshold, ratings) ==
    [raised |-> FALSE,
     is_pass |-> IF CorrectnessVeto(ratings) THEN FALSE
                 ELSE \/ SimilarityPass(similarity, threshold)
                      \/ (AtLeastSixTenths(NormalizedScore(ratings))
                          /\ CorrectnessAcceptable(ratings)),
     criteria |-> "comprehensive",
     scores |-> [similarity |-> similarity,
                 qualitative_normalized |-> NormalizedScore(ratings)]]

\* determine_pass_fail(similarity, threshold, claude_analysis)
DeterminePassFail(similarity, threshold, claude_analysis) ==
    IF NoAnalysis(claude_analysis)
    THEN [raised |-> FALSE, is_pass |-> SimilarityPass(similarity, threshold),
          criteria |-> "similarity_only"]
    ELSE IF RatingsRaise(claude_analysis[1])
         THEN [raised |-> TRUE]
         ELSE ComprehensiveVerdict(similarity, threshold, ExtractRatings(claude_analysis[1]))

(***************************************************************************)
(* The rubric judge (RagEvaluator._analyze_qa_results).                    *)
(*                                                                         *)
(* A response text is a sequence of tokens:  "{"  "}"  the braces;         *)
(* "C" "M"  the keys "correctness": and "completeness":;  "g" "p"  the     *)
(* members "rating": "good" and "rating": "poor";  "s"  a string value;    *)
(* "t"  any other text.  Commas are left out.                              *)
(***************************************************************************)
KeyTokens == {"C", "M"}

KeyName(tok) == IF tok = "C" THEN "correctness" ELSE "completeness"

PairTokens == {"g", "p"}

PairRating(tok) == IF tok = "g" THEN "good" ELSE "poor"

\* str.find(ch): the 0-based index of the first occurrence, or -1
Find(ts, ch) ==
    IF \E k \in 1..Len(ts) : ts[k] = ch
    THEN (CHOOSE k \in 1..Len(ts) : ts[k] = ch /\ \A m \in 1..(k - 1) : ts[m] # ch) - 1
    ELSE -1

\* str.rfind(ch): the 0-based index of the last occurrence, or -1
RFind(ts, ch) ==
    IF \E k \in 1..Len(ts) : ts[k] = ch
    THEN (CHOOSE k \in 1..Len(ts) : ts[k] = ch /\ \A m \in (k + 1)..Len(ts) : ts[m] # ch) - 1
    ELSE -1

\* json_start = response_text.find("{")
JsonStart(ts) == Find(ts, "{")

\* JsonEnd, were the first closing brace taken
JsonEnd_FirstClose(ts) == Find(ts, "}") + 1

\* json_end = response_text.rfind("}") + 1
JsonEnd(ts) == RFind(ts, "}") + 1

\* response_text[json_start:json_end]
JsonContent(ts) == SubSeq(ts, JsonStart(ts) + 1, JsonEnd(ts))

ParseFailure == [ok |-> FALSE, next |-> 0, val |-> <<>>]

RECURSIVE ParseMembers(_, _, _)
\* the members of a JSON object up to its closing brace, from position k; a repeated
\* key keeps its last value
ParseMembers(ts, k, acc) ==
    IF k > Len(ts) THEN ParseFailure
    ELSE IF ts[k] = "}" THEN [ok |-> TRUE, next |-> k + 1, val |-> acc]
    ELSE IF ts[k] \in PairTokens
         THEN ParseMembers(ts, k + 1, ("rating" :> Str(PairRating(ts[k]))) @@ acc)
    ELSE IF ts[k] \in KeyTokens /\ k + 1 <= Len(ts) /\ ts[k + 1] = "s"
         THEN ParseMembers(ts, k + 2, (KeyName(ts[k]) :> Str("s")) @@ acc)
    ELSE IF ts[k] \in KeyTokens /\ k + 1 <= Len(ts) /\ ts[k + 1] = "{"
         THEN LET inner == ParseMembers(ts, k + 2, <<>>) IN
              IF inner.ok
              THEN ParseMembers(ts, inner.next, (KeyName(ts[k]) :> Dict(inner.val)) @@ acc)
              ELSE ParseFailure
    ELSE ParseFailure

\* json.loads on a text that starts with "{": the whole text must be one object
JsonLoads(ts) ==
    IF ts = <<>> \/ ts[1] # "{" THEN ParseFailure
    ELSE LET r == ParseMembers(ts, 2, <<>>) IN
         IF r.ok /\ r.next = Len(ts) + 1 THEN r ELSE ParseFailure

\* the keys of a verdict that qa_inputs.update(pass_fail_result) copies
VerdictDict(v) == [k \in DOMAIN v \ {"raised"} |-> v[k]]

\* qa_inputs after qa_inputs.update(pass_fail_result)
QaInputs(qa, thr, v) ==
    VerdictDict(v) @@ [query |-> qa.query, similarity |-> qa.similarity, threshold |-> thr]

\* FallbackEntry, were a question without a rubric counted as failed
FallbackEntry_Fail(qa, thr, msg) ==
    [error |-> msg,
     qa_inputs |-> QaInputs(qa, thr, [raised |-> FALSE, is_pass |-> FALSE,
                                      criteria |-> "similarity_only"])]

\* the per_question entry of the branches that have no rubric
FallbackEntry(qa, thr, msg) ==
    [error |-> msg,
     qa_inputs |-> QaInputs(qa, thr, DeterminePassFail(qa.similarity, thr, None))]

\* the per_question entry of a question whose judge call returned the text ts
QuestionEntry(qa, thr, ts) ==
    IF JsonStart(ts) >= 0 /\ JsonEnd(ts) > JsonStart(ts)
    THEN IF JsonLoads(JsonContent(ts)).ok
         THEN IF DeterminePassFail(qa.similarity, thr,
                                   Some(JsonLoads(JsonContent(ts)).val)).raised
              THEN FallbackEntry(qa, thr, "error processing analysis")
              ELSE [analysis |-> JsonLoads(JsonContent(ts)).val,
                    qa_inputs |->
                        QaInputs(qa, thr,
                                 DeterminePassFail(qa.similarity, thr,
                                                   Some(JsonLoads(JsonContent(ts)).val)))]
         ELSE FallbackEntry(qa, thr, "invalid JSON")
    ELSE FallbackEntry(qa, thr, "Failed to parse analysis")

\* "word in text", for a text given as its sequence of words
Contains(words, word) == \E k \in 1..Len(words) : words[k] = word

\* IsOverload, were the message not lower-cased
IsOverload_CaseSensitive(msg) == Contains(msg, "529") \/ Contains(msg, "overloaded")

\* "529" in str(api_error) or "overloaded" in str(api_error).lower(); the message is
\* given as its sequence of words
IsOverload(msg) ==
    Contains(msg, "529") \/ Contains([k \in 1..Len(msg) |-> Lower(msg[k])], "overloaded")

\* the entry the overload handler appends for a QA result
RawEntry(qa, thr) ==
    [status |-> "raw_data_only",
     qa_inputs |-> QaInputs(qa, thr, DeterminePassFail(qa.similarity, thr, None))]

\* the analysis dictionary at the start of _analyze_qa_results
EmptyAnalysis == [per_question |-> <<>>, overall_rating |-> "", error |-> None]

\* the dictionary returned when the analysis fails
ErrorAnalysis(msg) == [per_question |-> <<>>, overall_rating |-> "error", error |-> Some(msg)]

\* the dictionary the overload handler returns
OverloadAnalysis(an, qas, thr) ==
    [an EXCEPT !.per_question = @ \o [k \in 1..Len(qas) |-> RawEntry(qas[k], thr)],
               !.overall_rating = "pending"]

(***************************************************************************)
(* The loader (load_data_from_source).  An input path is described by what *)
(* the file system holds there; a load returns the work items or raises.   *)
(***************************************************************************)
Loaded(items) == [ok |-> TRUE, items |-> items]

LoadError(msg) == [ok |-> FALSE, error |-> msg]

\* _get_default_queries
DefaultQueries ==
    << "What were the main topics discussed in this meeting?",
       "What action items were assigned and to whom?",
       "What decisions were made during this meeting?",
       "Who participated in this meeting and what were their roles?",
       "What are the next steps or follow-up items?" >>

RECURSIVE NonEmpty(_)
\* the queries of the Q&A pairs that are not empty, in file order
NonEmpty(qs) ==
    IF qs = <<>> THEN <<>>
    ELSE IF Head(qs) # "" THEN <<Head(qs)>> \o NonEmpty(Tail(qs))
    ELSE NonEmpty(Tail(qs))

\* LoadQueries, were the pairs without a query kept
LoadQueries_KeepEmpty(source) ==
    IF source = <<>> THEN LoadError("No QA pairs found in groundtruth file")
    ELSE Loaded(source)

\* _load_queries_from_groundtruth; the source is described by the queries of its pairs
LoadQueries(source) ==
    IF source = <<>> THEN LoadError("No QA pairs found in groundtruth file")
    ELSE IF NonEmpty(source) = <<>>
         THEN LoadError("No valid queries found in groundtruth file")
         ELSE Loaded(NonEmpty(source))

\* _load_from_groundtruth_file
LoadFromGroundtruthFile(file, experiment_type) ==
    IF experiment_type = "qa"
    THEN IF file.qa_pairs = <<>>
         THEN LoadError("No QA pairs found in groundtruth file for QA experiment")
         ELSE Loaded([k \in 1..Len(file.qa_pairs) |->
                        [type |-> "qa", query |-> file.qa_pairs[k], ground_truth |-> "gt"]])
    ELSE IF experiment_type = "summarization"
    THEN IF ~file.summaries
         THEN LoadError("No summaries found in groundtruth file for summarization experiment")
         ELSE IF file.source = "missing"
              THEN LoadError("Source transcript file not found")
              ELSE IF file.source = "blank"
                   THEN LoadError("Empty transcript file")
                   ELSE Loaded(<< [type |-> "summarization", transcript |-> "t",
                                   groundtruth_summaries |-> "summaries",
                                   source_file |-> "f"] >>)
    ELSE LoadError("Unsupported experiment type")

\* str.strip() on the file contents that occur in the model
Strip(text) ==
    CASE text = " " -> ""
      [] text = " t " -> "t"
      [] OTHER -> text

\* _load_from_transcript_file; content: what the file holds
LoadFromTranscriptFile(content, experiment_type, queries_source) ==
    IF Strip(content) = "" THEN LoadError("Empty transcript file")
    ELSE IF experiment_type = "qa"
    THEN IF queries_source = None
         THEN Loaded(<< [type |-> "qa_raw", transcript |-> Strip(content),
                         source_file |-> "f", queries |-> DefaultQueries] >>)
         ELSE IF LoadQueries(queries_source[1]).ok
              THEN Loaded(<< [type |-> "qa_raw", transcript |-> Strip(content),
                              source_file |-> "f",
                              queries |-> LoadQueries(queries_source[1]).items] >>)
              ELSE LoadQueries(queries_source[1])
    ELSE IF experiment_type = "summarization"
    THEN Loaded(<< [type |-> "summarization", transcript |-> Strip(content),
                    source_file |-> "f"] >>)
    ELSE LoadError("Unsupported experiment type")

RECURSIVE LoadFiles(_, _, _)
\* the loop of _load_from_transcript_directory over the matched files
LoadFiles(txt, experiment_type, queries_source) ==
    IF txt = <<>> THEN Loaded(<<>>)
    ELSE IF ~LoadFromTranscriptFile(Head(txt), experiment_type, queries_source).ok
         THEN LoadFromTranscriptFile(Head(txt), experiment_type, queries_source)
         ELSE IF ~LoadFiles(Tail(txt), experiment_type, queries_source).ok
              THEN LoadFiles(Tail(txt), experiment_type, queries_source)
              ELSE Loaded(LoadFromTranscriptFile(Head(txt), experiment_type,
                                                 queries_source).items
                          \o LoadFiles(Tail(txt), experiment_type, queries_source).items)

\* LoadFromTranscriptDirectory, were a directory without *.txt files accepted
LoadFromTranscriptDirectory_NoCheck(txt, experiment_type, queries_source) ==
    LoadFiles(txt, experiment_type, queries_source)

\* _load_from_transcript_directory; txt: the contents of the *.txt files of the directory
LoadFromTranscriptDirectory(txt, experiment_type, queries_source) ==
    IF txt = <<>> THEN LoadError("No .txt files found in directory")
    ELSE LoadFiles(txt, experiment_type, queries_source)

\* load_data_from_source
LoadDataFromSource(path, experiment_type, queries_source) ==
    CASE path.kind = "groundtruth" -> LoadFromGroundtruthFile(path, experiment_type)
      [] path.kind = "transcript" ->
            LoadFromTranscriptFile(path.content, experiment_type, queries_source)
      [] path.kind = "directory" ->
            LoadFromTranscriptDirectory(path.txt, experiment_type, queries_source)
      [] OTHER -> LoadError("Input path not found")

(***************************************************************************)
(* State of the runner                                                     *)
(***************************************************************************)
VARIABLES
    config_data,   \* load_config: the "experiments" array of the configuration file
    delay_seconds, \* delay_seconds of the call, in tenths of a second
    mode,          \* "run_experiment": called directly; "run_all": run_all_experiments
    experiments,   \* self.experiments, the loaded catalog
    input,         \* what input_path of run_all_experiments holds
    queries_source, \* queries_source of run_all_experiments: None or the queries of its pairs
    exp_i,         \* index of the experiment being run (1-based)
    data_items,    \* the work items of the running experiment
    pc,            \* position of the runner
    i,             \* number of items of data_items already visited
    j,             \* number of completion calls already issued for the item being processed
    cur,           \* the result being built for the item being processed
    results,       \* results of run_experiment
    total_usage,   \* total_usage of run_experiment
    total_cost,    \* total_cost of run_experiment
    errors,        \* errors of run_experiment
    result_files,  \* result_files of run_all_experiments
    files,         \* the output directory: path -> document
    ok_usage,      \* history: usage reported by the successful calls of the running experiment
    ok_cost,       \* history: cost reported by the successful calls of the running experiment
    calls          \* history: per visited item, the number of its calls and of its failed
                   \* calls, the log of its calls (what was asked, whether it failed, the
                   \* time slept after it), the usage its successful calls reported and
                   \* the time slept after the item

(***************************************************************************)
(* State of the evaluator                                                  *)
(***************************************************************************)
VARIABLES
    epc,             \* position of the evaluator
    similarity,      \* determine_pass_fail: similarity, in units of 1/MaxSim
    threshold,       \* determine_pass_fail: threshold, in units of 1/MaxSim
    claude_analysis, \* determine_pass_fail: None or Some(rubric)
    verdict,         \* determine_pass_fail: the returned dictionary
    qa_results,      \* _analyze_qa_results: the QA results of the result document
    q,               \* _analyze_qa_results: number of questions already judged
    analysis,        \* _analyze_qa_results: the analysis dictionary
    judge_log,       \* history: the judge's response text for each judged question
    judge_raised,    \* history: None or Some(message of the judge call that raised)
    eval_dir,        \* generate_summary_report: what the evaluation directory holds
    request,         \* generate_enhanced_report: the arguments of the call
    report           \* generate_summary_report: None or Some(the report written)

evalVars ==
    << epc, similarity, threshold, claude_analysis, verdict, qa_results, q, analysis,
       judge_log, judge_raised, eval_dir, report,
       request >>

\* the evaluator before it is called
EvalIdle ==
    /\ epc = "idle"
    /\ similarity = 0
    /\ threshold = 0
    /\ claude_analysis = None
    /\ verdict = None
    /\ qa_results = <<>>
    /\ q = 0
    /\ analysis = <<>>
    /\ judge_log = <<>>
    /\ judge_raised = None
    /\ eval_dir = [kind |-> "none"]
    /\ request = None
    /\ report = None

\* what no step of the runner changes
config == << config_data, delay_seconds, mode, experiments, input, queries_source, evalVars >>

runVars ==
    << config_data, delay_seconds, mode, experiments, input, queries_source, exp_i, data_items, pc, i, j, cur, results, total_usage,
       total_cost, errors, result_files, files, ok_usage, ok_cost, calls >>

experiment == experiments[exp_i]

llm == Lower(experiment.llm_type)

(***************************************************************************)
(* Per-call processing                                                     *)
(***************************************************************************)
\* the result of an item before any of its calls
EmptyResult ==
    [response |-> "", usage |-> ZeroUsage, cost |-> ZeroCost, error |-> None,
     qa_results |-> <<>>, summaries |-> <<>>, errlist |-> <<>>]

\* the except branch shared by the process_* methods
FailedResult(msg) ==
    [response |-> "ERROR: " \o msg, usage |-> ZeroUsage, cost |-> ZeroCost,
     error |-> Some(msg)]

\* process_question_claude
ProcessQuestionClaude(out) ==
    IF out.ok
    THEN [response |-> out.reply.content, usage |-> out.reply.usage,
          cost |-> out.reply.cost, error |-> None]
    ELSE FailedResult(out.msg)

\* process_question_lemonade: the local backend reports no usage
ProcessQuestionLemonade(out) ==
    IF out.ok
    THEN [response |-> out.reply.content, usage |-> ZeroUsage, cost |-> ZeroCost,
          error |-> None]
    ELSE FailedResult(out.msg)

ProcessQuestion(out) ==
    IF llm = "claude" THEN ProcessQuestionClaude(out) ELSE ProcessQuestionLemonade(out)

\* run_experiment, qa_raw branch: the query_result of one query
QueryResult(out) ==
    IF out.ok
    THEN [response |-> out.reply.content,
          usage |-> IF llm = "claude" THEN out.reply.usage ELSE ZeroUsage,
          cost |-> IF llm = "claude" THEN out.reply.cost ELSE ZeroCost,
          error |-> None]
    ELSE FailedResult(out.msg)

\* FoldQuery, were the cost of a query not added to the item's cost
FoldQuery_NoCost(total, query, qr) ==
    [total EXCEPT
        !.qa_results = Append(@, [query |-> query, response |-> qr.response]),
        !.usage = Accumulate(@, qr.usage),
        !.error = IF Truthy(qr.error)
                  THEN (IF Truthy(@) THEN Some(@[1] \o "; " \o qr.error[1]) ELSE qr.error)
                  ELSE @]

\* FoldQuery, were the queries after a failed one dropped
FoldQuery_StopAfterError(total, query, qr) ==
    IF Truthy(total.error) THEN total
    ELSE [total EXCEPT
            !.qa_results = Append(@, [query |-> query, response |-> qr.response]),
            !.usage = Accumulate(@, qr.usage),
            !.cost = Accumulate(@, qr.cost),
            !.error = IF Truthy(qr.error) THEN qr.error ELSE @]

\* run_experiment, qa_raw branch: fold one query_result into total_result
FoldQuery(total, query, qr) ==
    [total EXCEPT
        !.qa_results = Append(@, [query |-> query, response |-> qr.response]),
        !.usage = Accumulate(@, qr.usage),
        !.cost = Accumulate(@, qr.cost),
        !.error = IF Truthy(qr.error)
                  THEN (IF Truthy(@) THEN Some(@[1] \o "; " \o qr.error[1]) ELSE qr.error)
                  ELSE @]

\* SummarizeComponent, were a failed component left out of the results
SummarizeComponent_DropFailed(acc, component, out) ==
    IF out.ok
    THEN [acc EXCEPT
            !.summaries = @ @@ (component :> out.reply.content),
            !.usage = IF llm = "claude" THEN Accumulate(@, out.reply.usage) ELSE @,
            !.cost = IF llm = "claude" THEN Accumulate(@, out.reply.cost) ELSE @]
    ELSE [acc EXCEPT !.errlist = Append(@, component \o ": " \o out.msg)]

\* process_summarization_claude / _lemonade: the body of the loop over the components
SummarizeComponent(acc, component, out) ==
    IF out.ok
    THEN [acc EXCEPT
            !.summaries = @ @@ (component :> out.reply.content),
            !.usage = IF llm = "claude" THEN Accumulate(@, out.reply.usage) ELSE @,
            !.cost = IF llm = "claude" THEN Accumulate(@, out.reply.cost) ELSE @]
    ELSE [acc EXCEPT
            !.summaries = @ @@ (component :> "ERROR: " \o out.msg),
            !.errlist = Append(@, component \o ": " \o out.msg)]

\* process_summarization_*: the returned dictionary
SummarizationResult(acc) ==
    [response |-> acc.summaries, usage |-> acc.usage, cost |-> acc.cost,
     error |-> IF acc.errlist # <<>> THEN Some(Join(acc.errlist)) ELSE None]

\* the item's result after one more completion call with outcome out
AfterCall(item, acc, n, out) ==
    CASE item.type = "qa" ->
            [acc EXCEPT !.response = ProcessQuestion(out).response,
                        !.usage = ProcessQuestion(out).usage,
                        !.cost = ProcessQuestion(out).cost,
                        !.error = ProcessQuestion(out).error]
      [] item.type = "qa_raw" -> FoldQuery(acc, item.queries[n], QueryResult(out))
      [] OTHER -> SummarizeComponent(acc, Components[n], out)

\* "result" of the item once all its calls are made
ItemResult(item, acc) ==
    IF item.type = "summarization" THEN SummarizationResult(acc)
    ELSE [response |-> acc.response, usage |-> acc.usage, cost |-> acc.cost,
          error |-> acc.error]

\* "result_entry" of the item
ResultEntry(item, acc) ==
    CASE item.type = "qa" ->
            [query |-> item.query, ground_truth |-> item.ground_truth,
             response |-> acc.response]
      [] item.type = "qa_raw" ->
            [source_file |-> item.source_file, qa_results |-> acc.qa_results]
      [] OTHER ->
            IF "groundtruth_summaries" \in DOMAIN item
            THEN [source_file |-> item.source_file, generated_summaries |-> acc.summaries,
                  groundtruth_summaries |-> item.groundtruth_summaries]
            ELSE [source_file |-> item.source_file, generated_summaries |-> acc.summaries]

\* AppendEntry, were an item with a failed call to leave no entry
AppendEntry_DropFailed(res, it, acc) ==
    IF ItemResult(it, acc).error # None THEN res ELSE Append(res, ResultEntry(it, acc))

\* results.append(result_entry)
AppendEntry(res, it, acc) == Append(res, ResultEntry(it, acc))

\* RecordError, were the guard "if result['error'] is not None:"
RecordError_NotNone(errs, index, result) ==
    IF result.error # None
    THEN Append(errs, "Item " \o ToString(index) \o ": " \o result.error[1])
    ELSE errs

\* errors.append(f"Item {i+1}: {result['error']}"), guarded by "if result['error']:"
RecordError(errs, index, result) ==
    IF Truthy(result.error)
    THEN Append(errs, "Item " \o ToString(index) \o ": " \o result.error[1])
    ELSE errs

\* mutant: the results of a Q&A experiment always go under qa_results
Analysis_AlwaysQa(exp, res) ==
    IF exp.experiment_type = "qa" THEN [qa_results |-> res]
    ELSE IF exp.experiment_type = "summarization" THEN [summarization_results |-> res]
    ELSE <<>>

\* "Set analysis data based on experiment type and data type"
Analysis(exp, res) ==
    IF exp.experiment_type = "qa"
    THEN IF res # <<>> /\ "qa_results" \in DOMAIN res[1]
         THEN [transcript_qa_results |-> res]
         ELSE [qa_results |-> res]
    ELSE IF exp.experiment_type = "summarization"
         THEN [summarization_results |-> res]
         ELSE <<>>

\* output_data of run_experiment
OutputData(exp, items, res, usage, cost, errs) ==
    [metadata |->
        [experiment_name |-> exp.name, experiment_type |-> exp.experiment_type,
         llm_type |-> exp.llm_type, similarity_threshold |-> 7,
         total_items |-> Len(items), total_usage |-> usage, total_cost |-> cost,
         errors |-> errs],
     analysis |-> Analysis(exp, res)]

(***************************************************************************)
(* run_experiment                                                          *)
(***************************************************************************)
item == data_items[i + 1]

\* what the n-th completion call of a work item asks for: the question, the n-th
\* query, the n-th summary component
CallLabel(it, n) ==
    CASE it.type = "qa" -> it.query
      [] it.type = "qa_raw" -> it.queries[n]
      [] OTHER -> Components[n]

\* usage and cost a successful call reports to the runner; the local backend reports none
ReportedUsage(out) == IF llm = "claude" THEN out.reply.usage ELSE ZeroUsage

ReportedCost(out) == IF llm = "claude" THEN out.reply.cost ELSE ZeroCost

\* CreateClient, were the ValueError of create_llm_client caught by the batch loop
CreateClient_SkipsUnknown ==
    /\ pc = "start"
    /\ IF llm \in {"claude", "lemonade"}
       THEN pc' = "loop"
       ELSE pc' = "next"
    /\ i' = 0
    /\ j' = 0
    /\ cur' = EmptyResult
    /\ results' = <<>>
    /\ total_usage' = ZeroUsage
    /\ total_cost' = ZeroCost
    /\ errors' = <<>>
    /\ ok_usage' = ZeroUsage
    /\ ok_cost' = ZeroCost
    /\ calls' = <<>>
    /\ UNCHANGED << config, exp_i, data_items, result_files, files >>

\* create_llm_client, then the initialisation of the accumulators
CreateClient ==
    /\ pc = "start"
    /\ IF llm \in {"claude", "lemonade"}
       THEN pc' = "loop"
       ELSE pc' = "raised"
    /\ i' = 0
    /\ j' = 0
    /\ cur' = EmptyResult
    /\ results' = <<>>
    /\ total_usage' = ZeroUsage
    /\ total_cost' = ZeroCost
    /\ errors' = <<>>
    /\ ok_usage' = ZeroUsage
    /\ ok_cost' = ZeroCost
    /\ calls' = <<>>
    /\ UNCHANGED << config, exp_i, data_items, result_files, files >>

\* delay_seconds of run_experiment and run_all_experiments defaults to 1.0
DefaultDelay == 10

\* the delays a caller of run_experiment passes: none, or the default
Delays == { 0, DefaultDelay }

\* mutant: the delay follows the final item too
ItemDelay_AfterLast(delay, idx, n) == IF delay > 0 THEN delay ELSE 0

\* "if delay_seconds > 0 and i < len(data_items) - 1: time.sleep(delay_seconds)" at
\* the end of the loop body, idx the 0-based index of the item: the time slept
ItemDelay(delay, idx, n) == IF delay > 0 /\ idx < n - 1 THEN delay ELSE 0

\* time.sleep(0.5) at the end of the try block of a component call of
\* process_summarization_*: the time slept after the call, which an exception skips
ComponentSleep(it, out) == IF it.type = "summarization" /\ out.ok THEN 5 ELSE 0

\* the history record of an item on which the loop starts
NoCalls ==
    [n |-> 0, failed |-> 0, silent |-> 0, log |-> <<>>, usage |-> ZeroUsage, delay |-> 0]

\* the loop reaches an item of a supported kind
BeginItem ==
    /\ pc = "loop"
    /\ i < Len(data_items)
    /\ item.type \in SupportedKinds
    /\ pc' = "calls"
    /\ j' = 0
    /\ cur' = EmptyResult
    /\ calls' = Append(calls, NoCalls)
    /\ UNCHANGED << config, exp_i, data_items, i, results, total_usage,
                    total_cost, errors, result_files, files, ok_usage, ok_cost >>

\* SkipItem, were the skipped item recorded in the error list
SkipItem_RecordsError ==
    /\ pc = "loop"
    /\ i < Len(data_items)
    /\ item.type \notin SupportedKinds
    /\ i' = i + 1
    /\ errors' = Append(errors, "Item " \o ToString(i + 1) \o ": Unsupported data type")
    /\ calls' = Append(calls, NoCalls)
    /\ UNCHANGED << config, exp_i, data_items, pc, j, cur, results, total_usage,
                    total_cost, result_files, files, ok_usage, ok_cost >>

\* the else branch of the dispatch: log and "continue"
SkipItem ==
    /\ pc = "loop"
    /\ i < Len(data_items)
    /\ item.type \notin SupportedKinds
    /\ i' = i + 1
    /\ calls' = Append(calls, NoCalls)
    /\ UNCHANGED << config, exp_i, data_items, pc, j, cur, results, total_usage,
                    total_cost, errors, result_files, files, ok_usage, ok_cost >>

\* one completion call of the item being processed, with the code around it
BackendCall ==
    /\ pc = "calls"
    /\ j < NumCalls(item)
    /\ \E out \in (IF mode = "run_all" THEN BatchOutcomes ELSE Outcomes) :
        /\ cur' = AfterCall(item, cur, j + 1, out)
        /\ ok_usage' = IF out.ok THEN Accumulate(ok_usage, ReportedUsage(out)) ELSE ok_usage
        /\ ok_cost' = IF out.ok THEN Accumulate(ok_cost, ReportedCost(out)) ELSE ok_cost
        /\ calls' = [calls EXCEPT ![Len(calls)] =
                        [n |-> @.n + 1,
                         failed |-> @.failed + (IF out.ok THEN 0 ELSE 1),
                         silent |-> @.silent + (IF ~out.ok /\ out.msg = "" THEN 1 ELSE 0),
                         log |-> Append(@.log, [label |-> CallLabel(item, j + 1),
                                                failed |-> ~out.ok,
                                                msg |-> IF out.ok THEN "" ELSE out.msg,
                                                slept |-> ComponentSleep(item, out)]),
                         usage |-> IF out.ok THEN Accumulate(@.usage, ReportedUsage(out))
                                   ELSE @.usage,
                         delay |-> @.delay]]
    /\ j' = j + 1
    /\ UNCHANGED << config, exp_i, data_items, pc, i, results, total_usage,
                    total_cost, errors, result_files, files >>

\* after the item's last call: fold its result into the totals and append its entry
FinishItem ==
    /\ pc = "calls"
    /\ j = NumCalls(item)
    /\ total_usage' = Accumulate(total_usage, ItemResult(item, cur).usage)
    /\ total_cost' = Accumulate(total_cost, ItemResult(item, cur).cost)
    /\ errors' = RecordError(errors, i + 1, ItemResult(item, cur))
    /\ results' = AppendEntry(results, item, cur)
    /\ calls' = [calls EXCEPT ![Len(calls)].delay =
                                ItemDelay(delay_seconds, i, Len(data_items))]
    /\ i' = i + 1
    /\ pc' = "loop"
    /\ UNCHANGED << config, exp_i, data_items, j, cur, result_files, files,
                    ok_usage, ok_cost >>

\* after the loop: build the document and write it to the output directory
WriteDocument ==
    /\ pc = "loop"
    /\ i = Len(data_items)
    /\ files' = (ResultPath(experiment.name) :>
                    OutputData(experiment, data_items, results, total_usage, total_cost, errors))
                @@ files
    /\ result_files' = result_files
    /\ pc' = IF mode = "run_all" THEN "next" ELSE "returned"
    /\ UNCHANGED << config, exp_i, data_items, i, j, cur, results, total_usage,
                    total_cost, errors, ok_usage, ok_cost, calls >>

vars == << runVars, evalVars >>

InitRunner ==
    /\ config_data = <<>>
    /\ i = 0
    /\ j = 0
    /\ cur = EmptyResult
    /\ results = <<>>
    /\ total_usage = ZeroUsage
    /\ total_cost = ZeroCost
    /\ errors = <<>>
    /\ result_files = <<>>
    /\ files = <<>>
    /\ ok_usage = ZeroUsage
    /\ ok_cost = ZeroCost
    /\ calls = <<>>
    /\ EvalIdle

\* the runner before it is called
RunnerIdle ==
    /\ config_data = <<>>
    /\ mode = "none"
    /\ delay_seconds = DefaultDelay
    /\ experiments = <<>>
    /\ input = [kind |-> "none"]
    /\ queries_source = None
    /\ exp_i = 1
    /\ data_items = <<>>
    /\ pc = "idle"
    /\ i = 0
    /\ j = 0
    /\ cur = EmptyResult
    /\ results = <<>>
    /\ total_usage = ZeroUsage
    /\ total_cost = ZeroCost
    /\ errors = <<>>
    /\ result_files = <<>>
    /\ files = <<>>
    /\ ok_usage = ZeroUsage
    /\ ok_cost = ZeroCost
    /\ calls = <<>>

\* a direct call run_experiment(experiment, data_items, output_dir)
Init ==
    /\ mode = "run_experiment"
    /\ delay_seconds \in Delays
    /\ experiments \in { <<e>> : e \in DirectExperiments }
    /\ input = [kind |-> "none"]
    /\ queries_source = None
    /\ exp_i = 1
    /\ data_items \in ItemLists
    /\ pc = "start"
    /\ InitRunner

Next ==
    \/ CreateClient
    \/ BeginItem
    \/ SkipItem
    \/ BackendCall
    \/ FinishItem
    \/ WriteDocument

Spec == Init /\ [][Next]_vars

(***************************************************************************)
(* run_all_experiments                                                     *)
(***************************************************************************)
\* the head of the loop over self.experiments: load_data_from_source
LoadData ==
    /\ pc = "load"
    /\ exp_i <= Len(experiments)
    /\ IF LoadDataFromSource(input, experiment.experiment_type, queries_source).ok
       THEN /\ data_items' =
                  LoadDataFromSource(input, experiment.experiment_type, queries_source).items
            /\ pc' = "start"
       ELSE /\ data_items' = data_items
            /\ pc' = "raised"
    /\ calls' = <<>>
    /\ UNCHANGED << config, exp_i, i, j, cur, results, total_usage, total_cost, errors,
                    result_files, files, ok_usage, ok_cost >>

\* ReturnToBatch, were only the experiments without errors listed
ReturnToBatch_OnlyClean ==
    /\ pc = "next"
    /\ result_files' = IF errors = <<>>
                       THEN Append(result_files, ResultPath(experiments[exp_i].name))
                       ELSE result_files
    /\ exp_i' = exp_i + 1
    /\ pc' = "load"
    /\ UNCHANGED << config, data_items, i, j, cur, results, total_usage, total_cost,
                    errors, files, ok_usage, ok_cost, calls >>

\* run_experiment has returned: result_files.append(result_file), then the next experiment
ReturnToBatch ==
    /\ pc = "next"
    /\ result_files' = Append(result_files, ResultPath(experiment.name))
    /\ exp_i' = exp_i + 1
    /\ pc' = "load"
    /\ UNCHANGED << config, data_items, i, j, cur, results, total_usage, total_cost,
                    errors, files, ok_usage, ok_cost, calls >>

\* the loop over self.experiments is exhausted: return result_files
FinishBatch ==
    /\ pc = "load"
    /\ exp_i > Len(experiments)
    /\ pc' = "all_returned"
    /\ UNCHANGED << config, exp_i, data_items, i, j, cur, results, total_usage, total_cost,
                    errors, result_files, files, ok_usage, ok_cost, calls >>

\* the catalogs: every entry passed ExperimentConfig.__post_init__
CatalogEntries ==
    { e \in [name : {<< "a" >>, << "b" >>},
             llm_type : {"Claude", "lemonade", "gpt"},
             experiment_type : {"qa", "summarization"}] :
        ValidExperimentType(e.experiment_type) }

Catalogs == UNION { [1..n -> CatalogEntries] : n \in 0..MaxExperiments }

BatchInputs ==
    { [kind |-> "missing"] }
    \cup [kind : {"groundtruth"}, qa_pairs : {<<>>, << "q1" >>}, summaries : BOOLEAN,
          source : {"ok", "blank", "missing"}]
    \cup [kind : {"transcript"}, content : {"t", " "}]
    \cup [kind : {"directory"}, txt : {<<>>, << "t" >>, << "t", " " >>}]

QuerySources == { None, Some(<<>>), Some(<< "" >>), Some(<< "", "q1" >>) }

RECURSIVE BatchCalls(_, _, _)
\* the number of backend calls the catalog needs on this input
BatchCalls(catalog, path, qsrc) ==
    IF catalog = <<>> THEN 0
    ELSE (IF LoadDataFromSource(path, Head(catalog).experiment_type, qsrc).ok
          THEN TotalCalls(LoadDataFromSource(path, Head(catalog).experiment_type, qsrc).items)
          ELSE 0)
         + BatchCalls(Tail(catalog), path, qsrc)

\* a call run_all_experiments(input_path, output_dir, delay_seconds, queries_source)
BatchInit ==
    /\ mode = "run_all"
    /\ delay_seconds = DefaultDelay
    /\ experiments \in Catalogs
    /\ input \in BatchInputs
    /\ queries_source \in QuerySources
    /\ BatchCalls(experiments, input, queries_source) <= MaxBatchCalls
    /\ exp_i = 1
    /\ data_items = <<>>
    /\ pc = "load"
    /\ InitRunner

BatchNext ==
    \/ LoadData
    \/ CreateClient
    \/ BeginItem
    \/ BackendCall
    \/ FinishItem
    \/ WriteDocument
    \/ ReturnToBatch
    \/ FinishBatch

BatchSpec == BatchInit /\ [][BatchNext]_vars

\* the runner is sequential and every step of it ends (a completion call returns or
\* raises), so a step that can be taken is eventually taken
FairBatchSpec == BatchSpec /\ WF_vars(BatchNext)

(***************************************************************************)
(* BatchExperimentRunner(config_file): load_config, then run_all_experiments *)
(***************************************************************************)
\* the entries of the "experiments" array; experiment_type may be left out
RawEntries ==
    [name : {<< "a" >>, << "b" >>}, llm_type : {"Claude", "lemonade", "GPT"}]
    \cup [name : {<< "a" >>, << "b" >>}, llm_type : {"Claude", "lemonade", "GPT"},
          experiment_type : {"qa", "summarization", "classification", "QA"}]

RawCatalogs == UNION { [1..n -> RawEntries] : n \in 0..MaxExperiments }

\* exp_data.get("experiment_type", "qa")
ExperimentTypeOf(exp_data) == Get(exp_data, "experiment_type", "qa")

\* the ExperimentConfig built from an entry
ConfigOf(exp_data) ==
    [name |-> exp_data.name, llm_type |-> exp_data.llm_type,
     experiment_type |-> ExperimentTypeOf(exp_data)]

\* the ground-truth file the experiments of a configuration file are run on
ConfigInput ==
    [kind |-> "groundtruth", qa_pairs |-> << "q1" >>, summaries |-> TRUE, source |-> "ok"]

\* BatchExperimentRunner(config_file).run_all_experiments(input_path, output_dir)
ConfigInit ==
    /\ config_data \in RawCatalogs
    /\ BatchCalls([k \in 1..Len(config_data) |-> ConfigOf(config_data[k])],
                  ConfigInput, None) <= MaxBatchCalls
    /\ mode = "run_all"
    /\ delay_seconds = DefaultDelay
    /\ experiments = <<>>
    /\ input = ConfigInput
    /\ queries_source = None
    /\ exp_i = 1
    /\ data_items = <<>>
    /\ pc = "config"
    /\ i = 0
    /\ j = 0
    /\ cur = EmptyResult
    /\ results = <<>>
    /\ total_usage = ZeroUsage
    /\ total_cost = ZeroCost
    /\ errors = <<>>
    /\ result_files = <<>>
    /\ files = <<>>
    /\ ok_usage = ZeroUsage
    /\ ok_cost = ZeroCost
    /\ calls = <<>>
    /\ EvalIdle

\* load_config, one turn of the loop over config_data["experiments"]: construct the
\* ExperimentConfig (__post_init__ raises ValueError for another task kind, and
\* load_config re-raises) and append it to self.experiments
ConstructExperiment ==
    /\ pc = "config"
    /\ Len(experiments) < Len(config_data)
    /\ IF ValidExperimentType(ExperimentTypeOf(config_data[Len(experiments) + 1]))
       THEN /\ experiments' = Append(experiments, ConfigOf(config_data[Len(experiments) + 1]))
            /\ pc' = pc
       ELSE /\ experiments' = experiments
            /\ pc' = "config_raised"
    /\ UNCHANGED << config_data, delay_seconds, mode, input, queries_source, evalVars, exp_i, data_items,
                    i, j, cur, results, total_usage, total_cost, errors, result_files,
                    files, ok_usage, ok_cost, calls >>

\* load_config returns, the constructor returns, run_all_experiments is called
FinishConfig ==
    /\ pc = "config"
    /\ Len(experiments) = Len(config_data)
    /\ pc' = "load"
    /\ UNCHANGED << config, exp_i, data_items, i, j, cur, results, total_usage, total_cost,
                    errors, result_files, files, ok_usage, ok_cost, calls >>

ConfigNext ==
    \/ ConstructExperiment
    \/ FinishConfig
    \/ LoadData
    \/ CreateClient
    \/ BeginItem
    \/ BackendCall
    \/ FinishItem
    \/ WriteDocument
    \/ ReturnToBatch
    \/ FinishBatch

ConfigSpec == ConfigInit /\ [][ConfigNext]_vars

\* the constructor and the runner are sequential and every step of them ends
FairConfigSpec == ConfigSpec /\ WF_vars(ConfigNext)

(***************************************************************************)
(* load_data_from_source called on its own                                 *)
(***************************************************************************)
LoaderInputs ==
    { [kind |-> "missing"] }
    \cup [kind : {"groundtruth"}, qa_pairs : {<<>>, << "q1" >>, << "q1", "q2" >>},
          summaries : BOOLEAN, source : {"ok", "blank", "missing"}]
    \cup [kind : {"transcript"}, content : {"", " ", "t", " t "}]
    \cup [kind : {"directory"},
          txt : {<<>>, << "t" >>, << " t ", "t" >>, << "t", " " >>, << "" >>}]

LoaderQuerySources ==
    { None, Some(<<>>), Some(<< "" >>), Some(<< "", "q1" >>), Some(<< "q2", "", "q1" >>) }

\* a call load_data_from_source(input_path, experiment_type, queries_source)
LoaderInit ==
    /\ config_data = <<>>
    /\ mode = "load"
    /\ delay_seconds = DefaultDelay
    /\ experiments \in { << [name |-> << "a" >>, llm_type |-> "Claude", experiment_type |-> t] >> :
                            t \in {"qa", "summarization", "classification"} }
    /\ input \in LoaderInputs
    /\ queries_source \in LoaderQuerySources
    /\ exp_i = 1
    /\ data_items = <<>>
    /\ pc = "load_called"
    /\ i = 0
    /\ j = 0
    /\ cur = EmptyResult
    /\ results = <<>>
    /\ total_usage = ZeroUsage
    /\ total_cost = ZeroCost
    /\ errors = <<>>
    /\ result_files = <<>>
    /\ files = <<>>
    /\ ok_usage = ZeroUsage
    /\ ok_cost = ZeroCost
    /\ calls = <<>>
    /\ EvalIdle

\* the call returns the work items or raises
LoadCall ==
    /\ pc = "load_called"
    /\ IF LoadDataFromSource(input, experiment.experiment_type, queries_source).ok
       THEN /\ data_items' =
                  LoadDataFromSource(input, experiment.experiment_type, queries_source).items
            /\ pc' = "load_returned"
       ELSE /\ data_items' = data_items
            /\ pc' = "load_raised"
    /\ UNCHANGED << config, exp_i, i, j, cur, results, total_usage, total_cost, errors,
                    result_files, files, ok_usage, ok_cost, calls >>

LoaderNext == LoadCall

LoaderSpec == LoaderInit /\ [][LoaderNext]_vars

(***************************************************************************)
(* run_all_experiments over catalogs whose experiment names hold the        *)
(* characters the file name keeps, replaces and removes.                    *)
(***************************************************************************)
NameChars == { "a", " ", "-", "_", "/" }

ExperimentNames == UNION { [1..n -> NameChars] : n \in 1..MaxNameLen }

NamedExperiment(name) ==
    [name |-> name, llm_type |-> "Claude", experiment_type |-> "qa"]

\* a catalog of one experiment, or of an experiment and a later one
NameCatalogs ==
    { << NamedExperiment(n) >> : n \in ExperimentNames }
    \cup { << NamedExperiment(n1), NamedExperiment(n2) >> : n1, n2 \in ExperimentNames }

NameInit ==
    /\ mode = "run_all"
    /\ delay_seconds = DefaultDelay
    /\ experiments \in NameCatalogs
    /\ input = ConfigInput
    /\ queries_source = None
    /\ exp_i = 1
    /\ data_items = <<>>
    /\ pc = "load"
    /\ InitRunner

NameSpec == NameInit /\ [][BatchNext]_vars

(***************************************************************************)
(* Properties of run_experiment                                            *)
(***************************************************************************)
\* run_experiment has written its document and returned
Returned == pc \in {"returned", "next"}

\* the document of the running experiment
Document == files[ResultPath(experiment.name)]

\* the result entries of a document (it has one analysis bucket)
Entries(doc) == doc.analysis[CHOOSE b \in DOMAIN doc.analysis : TRUE]

AllSupported == \A k \in 1..Len(data_items) : data_items[k].type \in SupportedKinds

\* the entry is the one the runner builds for this work item
EntryOf(entry, it) ==
    CASE it.type = "qa" ->
            /\ DOMAIN entry = {"query", "ground_truth", "response"}
            /\ entry.query = it.query
            /\ entry.ground_truth = it.ground_truth
      [] it.type = "qa_raw" ->
            /\ "qa_results" \in DOMAIN entry
            /\ Len(entry.qa_results) = Len(it.queries)
            /\ \A n \in 1..Len(it.queries) : entry.qa_results[n].query = it.queries[n]
      [] it.type = "summarization" ->
            /\ "generated_summaries" \in DOMAIN entry
            /\ DOMAIN entry.generated_summaries = { Components[c] : c \in 1..Len(Components) }
      [] OTHER -> FALSE

\* C1: for a list of work items of supported kinds and any pattern of backend
\* failures, run_experiment never raises once it has started on the items, every
\* item visited so far has exactly one result entry at its own position, and the
\* document that is written holds one entry per item in input order.
C1_OneEntryPerItemInOrder ==
    /\ pc = "raised" => calls = <<>>
    /\ AllSupported /\ pc \in {"loop", "calls"} =>
          /\ Len(results) = i
          /\ \A k \in 1..i : EntryOf(results[k], data_items[k])
    /\ AllSupported /\ Returned =>
          /\ ResultPath(experiment.name) \in DOMAIN files
          /\ Len(Entries(Document)) = Len(data_items)
          /\ \A k \in 1..Len(data_items) : EntryOf(Entries(Document)[k], data_items[k])

\* C1 witness: a document of three supported items of which the first had a failed call
C1_Witness ==
    /\ Returned
    /\ AllSupported
    /\ Len(data_items) = 3
    /\ calls[1].failed > 0
    /\ data_items[1] # data_items[2]
    /\ Len(Entries(Document)) = 3

\* C2: the totals of the document are, field by field, the sums of the usage and
\* cost reported by the successful calls; failed calls add nothing.
C2_TotalsAreSumsOfSuccessfulCalls ==
    /\ pc = "loop" => total_usage = ok_usage /\ total_cost = ok_cost
    /\ Returned =>
          /\ Document.metadata.total_usage = ok_usage
          /\ Document.metadata.total_cost = ok_cost

\* C2 witness: a document whose experiment had failed calls, also inside an item
\* whose other calls succeeded, and successful calls reporting usage
C2_Witness ==
    /\ Returned
    /\ \E k \in 1..Len(calls) : calls[k].failed > 0 /\ calls[k].failed < calls[k].n
    /\ \E k \in 1..Len(calls) : calls[k].failed = calls[k].n /\ calls[k].n > 0
    /\ Document.metadata.total_usage.total_tokens > 0
    /\ Document.metadata.total_cost.output_cost > 0

\* every backend call of the experiment failed (and there was at least one)
AllCallsFailed ==
    /\ \A k \in 1..Len(calls) : calls[k].failed = calls[k].n
    /\ \E k \in 1..Len(calls) : calls[k].n > 0

RECURSIVE SumFailed(_)
SumFailed(cs) == IF cs = <<>> THEN 0 ELSE Head(cs).failed + SumFailed(Tail(cs))

\* the number of failed backend calls of the running experiment
NumFailedCalls == SumFailed(calls)

\* the visited items that left an error: an item with a failed call that carried a
\* non-empty message, or a summarization item with any failed component
ItemsInError ==
    { k \in 1..Len(calls) :
        IF data_items[k].type = "summarization"
        THEN calls[k].failed > 0
        ELSE calls[k].failed > calls[k].silent }

\* C3 as stated: when every call fails the document is written, metadata.errors
\* has one entry per failed backend call and total_usage is all zeros.
C3_Original ==
    Returned /\ AllCallsFailed =>
        /\ ResultPath(experiment.name) \in DOMAIN files
        /\ Len(Document.metadata.errors) = NumFailedCalls
        /\ Document.metadata.total_usage = ZeroUsage

\* C3 amended: when every call fails the document is written, metadata.errors has
\* one entry per work item that had a failed call with a non-empty message (a
\* summarization item counts whenever a component failed), and total_usage and
\* total_cost are all zeros.
C3_OneErrorPerFailedItem ==
    Returned /\ AllCallsFailed =>
        /\ ResultPath(experiment.name) \in DOMAIN files
        /\ Len(Document.metadata.errors) = Cardinality(ItemsInError)
        /\ Document.metadata.total_usage = ZeroUsage
        /\ Document.metadata.total_cost = ZeroCost

\* C3 witness: every call of a qa_raw item with two queries and of another item
\* failed, and the document lists two errors
C3_Witness ==
    /\ Returned
    /\ AllCallsFailed
    /\ \E k \in 1..Len(calls) : data_items[k].type = "qa_raw" /\ calls[k].failed = 2
    /\ Len(Document.metadata.errors) = 2
    /\ NumFailedCalls > 2

(***************************************************************************)
(* Properties of run_all_experiments                                       *)
(***************************************************************************)
\* run_all_experiments has returned a list with one written document per experiment,
\* in catalog order
AllPersisted ==
    /\ pc = "all_returned"
    /\ Len(result_files) = Len(experiments)
    /\ \A k \in 1..Len(experiments) :
          /\ result_files[k] = ResultPath(experiments[k].name)
          /\ result_files[k] \in DOMAIN files

\* every experiment of the catalog names a supported backend and its data loads
CatalogRunnable ==
    \A k \in 1..Len(experiments) :
        /\ Lower(experiments[k].llm_type) \in {"claude", "lemonade"}
        /\ LoadDataFromSource(input, experiments[k].experiment_type, queries_source).ok

\* C4 as stated: whatever backend calls fail, run_all_experiments eventually returns
\* a list with one persisted document per experiment of the loaded catalog.
C4_Original == <>AllPersisted

\* C4 amended: when every experiment of the catalog names a supported backend and
\* the input loads for its task kind, run_all_experiments eventually returns a list
\* with one persisted document per experiment, in catalog order, whatever backend
\* calls fail.
C4_RunnableCatalogIsPersisted == CatalogRunnable => <>AllPersisted

\* C4 witness: a catalog of two experiments has been run to the end and a document
\* records the error of a failed backend call
C4_Witness ==
    /\ AllPersisted
    /\ Len(experiments) = 2
    /\ \E f \in DOMAIN files : files[f].metadata.errors # <<>>
    /\ \E f \in DOMAIN files : files[f].metadata.total_usage.total_tokens > 0

(***************************************************************************)
(* determine_pass_fail applied to bounded inputs                           *)
(***************************************************************************)
\* a criterion the rubric does not have
Absent == [kind |-> "absent"]

Rated(r) == Dict("rating" :> Str(r))

\* what the judge may give for each criterion: nothing, a rating in some spelling,
\* an object without a rating, or a bare string instead of an object
CriterionValues(c) ==
    CASE c = "correctness" ->
            { Absent, Dict(<<>>), Str("good") }
            \cup { Rated(r) : r \in {"excellent", "good", "fair", "poor", "POOR", "Fair", "bad"} }
      [] c = "completeness" ->
            { Absent } \cup { Rated(r) : r \in {"excellent", "good", "fair", "poor", "bad"} }
      [] c = "conciseness" -> { Absent, Rated("good"), Rated("poor") }
      [] OTHER -> { Absent, Rated("good"), Rated("excellent") }

CriteriaSet == { Criteria[k] : k \in 1..Len(Criteria) }

\* the rubric with the given value for each criterion
RubricOf(a) == [c \in { c \in CriteriaSet : a[c] # Absent } |-> a[c]]

Rubrics ==
    { RubricOf(a) : a \in { a \in [CriteriaSet -> UNION { CriterionValues(c) : c \in CriteriaSet }] :
                              \A c \in CriteriaSet : a[c] \in CriterionValues(c) } }
    \cup { "note" :> Str("n") }

Sims == 0..MaxSim

\* a call determine_pass_fail(similarity, threshold, claude_analysis)
DecideInit ==
    /\ RunnerIdle
    /\ epc = "called"
    /\ similarity \in Sims
    /\ threshold \in Sims
    /\ claude_analysis \in {None} \cup { Some(r) : r \in Rubrics }
    /\ verdict = None
    /\ qa_results = <<>>
    /\ q = 0
    /\ analysis = <<>>
    /\ judge_log = <<>>
    /\ judge_raised = None
    /\ eval_dir = [kind |-> "none"]
    /\ request = None
    /\ report = None

Decide ==
    /\ epc = "called"
    /\ verdict' = DeterminePassFail(similarity, threshold, claude_analysis)
    /\ epc' = "decided"
    /\ UNCHANGED << runVars, similarity, threshold, claude_analysis, qa_results, q,
                    analysis, judge_log, judge_raised, eval_dir, report,
                    request >>

DecideNext == Decide

DecideSpec == DecideInit /\ [][DecideNext]_vars

(***************************************************************************)
(* Properties of determine_pass_fail                                       *)
(***************************************************************************)
Decided == epc = "decided"

\* the rubric handed to determine_pass_fail
Rubric == claude_analysis[1]

\* the rubric has a rating for the criterion
HasRating(c) ==
    /\ claude_analysis # None
    /\ c \in DOMAIN Rubric
    /\ Rubric[c].kind = "dict"
    /\ "rating" \in DOMAIN Rubric[c].v

\* the rating the judge wrote for the criterion
GivenRating(c) == Rubric[c].v["rating"].v

\* the spellings of the four ratings
Spellings(r) ==
    CASE r = "excellent" -> {"excellent", "Excellent"}
      [] r = "good" -> {"good", "GOOD"}
      [] r = "fair" -> {"fair", "Fair"}
      [] OTHER -> {"poor", "Poor", "POOR"}

\* C5: whenever the correctness rating is "poor", in any letter case, the verdict is
\* a fail, whatever the similarity, the threshold and the other ratings.
C5_PoorCorrectnessFails ==
    Decided /\ HasRating("correctness") /\ GivenRating("correctness") \in Spellings("poor") =>
        verdict.raised = FALSE /\ verdict.is_pass = FALSE

\* C5 witness: correctness "POOR", the other ratings at their best and a similarity
\* above the threshold
C5_Witness ==
    /\ Decided
    /\ HasRating("correctness") /\ GivenRating("correctness") = "POOR"
    /\ HasRating("completeness") /\ GivenRating("completeness") = "excellent"
    /\ HasRating("conciseness") /\ GivenRating("conciseness") = "good"
    /\ HasRating("relevance") /\ GivenRating("relevance") = "excellent"
    /\ similarity > threshold
    /\ verdict.is_pass = FALSE

\* C6: with a correctness rating of fair, good or excellent the verdict is
\* comprehensive and passes exactly when the similarity reaches the threshold or the
\* normalized score reaches 0.6; four ratings "good" pass below the threshold.
C6_AcceptableCorrectnessPassesOnEitherSignal ==
    Decided /\ HasRating("correctness")
            /\ GivenRating("correctness")
                 \in Spellings("fair") \cup Spellings("good") \cup Spellings("excellent") =>
        /\ verdict.raised = FALSE
        /\ verdict.criteria = "comprehensive"
        /\ verdict.is_pass =
              (\/ similarity >= threshold
               \/ 10 * verdict.scores.qualitative_normalized.num
                    >= 6 * verdict.scores.qualitative_normalized.den)
        /\ (\A c \in CriteriaSet : HasRating(c) /\ GivenRating(c) = "good") =>
              verdict.is_pass = TRUE

\* C6 witness: correctness "good", a normalized score of exactly 0.6 and a similarity
\* below the threshold: the verdict passes on the qualitative signal alone
C6_Witness ==
    /\ Decided
    /\ HasRating("correctness") /\ GivenRating("correctness") = "good"
    /\ similarity < threshold
    /\ verdict.raised = FALSE
    /\ 10 * verdict.scores.qualitative_normalized.num
          = 6 * verdict.scores.qualitative_normalized.den
    /\ verdict.is_pass = TRUE

\* C7: without a rubric the verdict passes if and only if similarity >= threshold,
\* its criteria is similarity_only and it has no score breakdown.
C7_NoRubricIsSimilarityOnly ==
    Decided /\ claude_analysis = None =>
        /\ verdict.raised = FALSE
        /\ verdict.is_pass = (similarity >= threshold)
        /\ verdict.criteria = "similarity_only"
        /\ "scores" \notin DOMAIN verdict

\* C7 witness: no rubric and a similarity equal to the threshold: a pass
C7_Witness ==
    /\ Decided
    /\ claude_analysis = None
    /\ similarity = threshold
    /\ verdict.is_pass = TRUE

\* the rating points of the claim, by spelling
ClaimPoints(r) ==
    CASE r \in Spellings("excellent") -> 4
      [] r \in Spellings("good") -> 3
      [] r \in Spellings("fair") -> 2
      [] r \in Spellings("poor") -> 1
      [] OTHER -> 0

\* the criteria present in the rubric
Present == CriteriaSet \cap DOMAIN Rubric

ClaimTerm(c, w) == IF c \in Present /\ HasRating(c) THEN ClaimPoints(GivenRating(c)) * w ELSE 0

\* the weighted sum of the rating points, weights in hundredths
ClaimWeightedSum ==
    ClaimTerm("correctness", 40) + ClaimTerm("completeness", 30)
    + ClaimTerm("conciseness", 15) + ClaimTerm("relevance", 15)

\* the sum of the weights of the criteria present, in hundredths
ClaimWeights ==
    (IF "correctness" \in Present THEN 40 ELSE 0) + (IF "completeness" \in Present THEN 30 ELSE 0)
    + (IF "conciseness" \in Present THEN 15 ELSE 0) + (IF "relevance" \in Present THEN 15 ELSE 0)

\* every criterion present carries one of the four ratings
AllRecognised == \A c \in Present : HasRating(c) /\ ClaimPoints(GivenRating(c)) > 0

\* C8: the normalized score is the weighted sum of the rating points divided by 4
\* times the sum of the weights of the criteria present; with at least one criterion
\* present it lies in [0.25, 1]; correctness "good" alone gives 0.75.
C8_NormalizedOverPresentCriteria ==
    Decided /\ claude_analysis # None /\ verdict.raised = FALSE
            /\ verdict.criteria = "comprehensive" /\ Present # {} =>
        LET score == verdict.scores.qualitative_normalized IN
        /\ AllRecognised => score.num * (4 * ClaimWeights) = ClaimWeightedSum * score.den
        /\ 4 * score.num >= score.den
        /\ score.num <= score.den
        /\ Rubric = ("correctness" :> Rated("good")) => 4 * score.num = 3 * score.den

\* C8 witness: a rubric with the single rating correctness "good": the score is 0.75
\* and the verdict passes below the similarity threshold
C8_Witness ==
    /\ Decided
    /\ claude_analysis = Some("correctness" :> Rated("good"))
    /\ similarity < threshold
    /\ 4 * verdict.scores.qualitative_normalized.num
          = 3 * verdict.scores.qualitative_normalized.den
    /\ verdict.is_pass = TRUE

(***************************************************************************)
(* _analyze_qa_results on bounded result documents and judge responses     *)
(***************************************************************************)
GoodRubric == << "{", "C", "{", "g", "}", "}" >>

PoorRubric == << "{", "C", "{", "p", "}", "M", "{", "g", "}", "}" >>

Fragments ==
    { <<>>, << "t" >>, << "{" >>, << "}" >>, << "{", "C", "s", "}" >>, GoodRubric, PoorRubric }

RECURSIVE TextsOf(_)
\* the texts made of at most n fragments
TextsOf(n) ==
    IF n = 0 THEN { <<>> }
    ELSE { a \o b : a \in TextsOf(n - 1), b \in Fragments }

JudgeTexts == TextsOf(MaxFragments)

\* the messages of the errors a judge call raises, as sequences of words
JudgeErrors ==
    { << "Error", "code", "529" >>, << "API", "Overloaded" >>, << "server", "overloaded" >>,
      << "OVERLOADED" >>, << "timeout" >>, << "Error", "code", "500" >> }

\* similarities just below and at the threshold of the result document
JudgeSims == {MaxSim - 2, MaxSim - 1}

QaResultLists ==
    UNION { [1..n -> [query : {"q"}, similarity : JudgeSims]] : n \in 0..MaxQuestions }

\* a call _analyze_qa_results(results, qa_results)
JudgeInit ==
    /\ RunnerIdle
    /\ epc = "judging"
    /\ similarity = 0
    /\ threshold = MaxSim - 1
    /\ claude_analysis = None
    /\ verdict = None
    /\ qa_results \in QaResultLists
    /\ q = 0
    /\ analysis = EmptyAnalysis
    /\ judge_log = <<>>
    /\ judge_raised = None
    /\ eval_dir = [kind |-> "none"]
    /\ request = None
    /\ report = None

\* "if not qa_results": nothing to analyze
ReturnNoResults ==
    /\ epc = "judging"
    /\ qa_results = <<>>
    /\ analysis' = ErrorAnalysis("No QA results found")
    /\ epc' = "returned"
    /\ UNCHANGED << runVars, similarity, threshold, claude_analysis, verdict, qa_results, q,
                    judge_log, judge_raised, eval_dir, report,
                    request >>

\* the judge call of the next question returns a text
JudgeQuestion ==
    /\ epc = "judging"
    /\ q < Len(qa_results)
    /\ \E ts \in JudgeTexts :
        /\ analysis' = [analysis EXCEPT
                          !.per_question = Append(@, QuestionEntry(qa_results[q + 1], threshold, ts))]
        /\ judge_log' = Append(judge_log, ts)
    /\ q' = q + 1
    /\ UNCHANGED << runVars, epc, similarity, threshold, claude_analysis, verdict, qa_results,
                    judge_raised, eval_dir, report,
                    request >>

\* the overall-analysis call after the last question returns; parsed: its text holds
\* a JSON object
OverallAnalysis ==
    /\ epc = "judging"
    /\ qa_results # <<>>
    /\ q = Len(qa_results)
    /\ \E parsed \in BOOLEAN :
        analysis' = IF parsed
                    THEN [analysis EXCEPT !.overall_rating = "good"]
                    ELSE [analysis EXCEPT !.error = Some("Failed to parse overall analysis")]
    /\ epc' = "returned"
    /\ UNCHANGED << runVars, similarity, threshold, claude_analysis, verdict, qa_results, q,
                    judge_log, judge_raised, eval_dir, report,
                    request >>

\* a judge call (of a question or the overall one) raises: the except branches of
\* _analyze_qa_results and analyze_with_claude
JudgeRaises ==
    /\ epc = "judging"
    /\ qa_results # <<>>
    /\ \E msg \in JudgeErrors :
        /\ analysis' = IF IsOverload(msg)
                       THEN OverloadAnalysis(analysis, qa_results, threshold)
                       ELSE ErrorAnalysis(msg)
        /\ judge_raised' = Some(msg)
    /\ epc' = "returned"
    /\ UNCHANGED << runVars, similarity, threshold, claude_analysis, verdict, qa_results, q,
                    judge_log, eval_dir, report,
                    request >>

JudgeNext ==
    \/ ReturnNoResults
    \/ JudgeQuestion
    \/ OverallAnalysis
    \/ JudgeRaises

JudgeSpec == JudgeInit /\ [][JudgeNext]_vars

(***************************************************************************)
(* generate_summary_report: the report over the evaluation documents of a   *)
(* directory.                                                               *)
(***************************************************************************)

\* the index of the last "." of a file name, 0 when it has none
LastDot(filename) ==
    LET dots == { k \in 1..Len(filename) : SubSeq(filename, k, k) = "." }
    IN IF dots = {} THEN 0 ELSE CHOOSE k \in dots : \A l \in dots : l <= k

\* Path(file).stem: the file name without its last suffix; a leading or a trailing
\* "." starts no suffix
Stem(filename) ==
    IF 1 < LastDot(filename) /\ LastDot(filename) < Len(filename)
    THEN SubSeq(filename, 1, LastDot(filename) - 1)
    ELSE filename

\* filename.replace(".eval", ""), for the names "<model>.eval" that the glob yields
ModelName(filename) ==
    LET stem == Stem(filename)
    IN IF Len(stem) >= 5 /\ SubSeq(stem, Len(stem) - 4, Len(stem)) = ".eval"
       THEN SubSeq(stem, 1, Len(stem) - 5)
       ELSE stem

\* the model_info dictionary built from one evaluation document; pass rates are in
\* units of 1%
ModelInfo(filename, eval_data) ==
    LET overall_rating == Get(eval_data, "overall_rating", <<>>)
        metrics == Get(overall_rating, "metrics", <<>>)
    IN [name |-> ModelName(filename),
        pass_rate |-> Get(metrics, "pass_rate", 0),
        rating |-> Get(overall_rating, "rating", "unknown"),
        per_question |-> Get(eval_data, "per_question", <<>>)]

\* mutant: the first file that cannot be parsed ends the loop
ParseEvalFiles_StopAtError(eval_files) ==
    LET bad == { k \in 1..Len(eval_files) : ~eval_files[k].parsable }
        n == IF bad = {} THEN Len(eval_files)
             ELSE (CHOOSE k \in bad : \A l \in bad : k <= l) - 1
    IN [k \in 1..n |-> ModelInfo(eval_files[k].name, eval_files[k].data)]

\* the parse loop: a file whose json.load raises is logged and skipped
ParseEvalFiles(eval_files) ==
    LET ok == SelectSeq(eval_files, LAMBDA f : f.parsable)
    IN [k \in 1..Len(ok) |-> ModelInfo(ok[k].name, ok[k].data)]

\* models_data.sort(key=pass_rate, reverse=True): stable, so models of equal pass
\* rate keep the order of the directory listing
SortByPassRate(models_data) ==
    LET n == Len(models_data)
        Place(k) == 1 + Cardinality({ l \in 1..n :
                            \/ models_data[l].pass_rate > models_data[k].pass_rate
                            \/ /\ models_data[l].pass_rate = models_data[k].pass_rate
                               /\ l < k })
    IN [p \in 1..n |-> models_data[CHOOSE k \in 1..n : Place(k) = p]]

\* the analysis fields by which _detect_evaluation_type recognises a summarization
SummarizationFields ==
    { "executive_summary_quality", "detail_completeness", "action_items_structure",
      "key_decisions_clarity", "participant_information", "topic_organization" }

DetectEvaluationType(models_data) ==
    IF Len(models_data) = 0 THEN "unknown"
    ELSE LET per_question == models_data[1].per_question
         IN IF Len(per_question) = 0 THEN "unknown"
            ELSE IF SummarizationFields \cap DOMAIN Get(per_question[1], "analysis", <<>>) # {}
                 THEN "summarization"
                 ELSE "rag"

\* excellent_count, good_count, fair_count, poor_count of one model
QualityCount(model, rating) ==
    Cardinality({ k \in 1..Len(model.per_question) :
                    Get(Get(model.per_question[k], "analysis", <<>>), "overall_quality", "")
                        = rating })

TotalSummaries(model) ==
    QualityCount(model, "excellent") + QualityCount(model, "good")
        + QualityCount(model, "fair") + QualityCount(model, "poor")

\* quality_score, as the fraction num/den
QualityScore(model) ==
    [num |-> QualityCount(model, "excellent") * 4 + QualityCount(model, "good") * 3
                + QualityCount(model, "fair") * 2 + QualityCount(model, "poor") * 1,
     den |-> TotalSummaries(model)]

\* the names of the table rows: one row per model
TableRows(models_data) == [k \in 1..Len(models_data) |-> models_data[k].name]

\* _generate_summarization_report: the ranking line lists the models that have a
\* rated summary, in the order of models_data; the best performer is models_data[0]
GenerateSummarizationReport(models_data) ==
    LET listed == SelectSeq(models_data, LAMBDA m : TotalSummaries(m) > 0)
    IN [template |-> "summarization",
        ranking |-> [k \in 1..Len(listed) |->
                        [name |-> listed[k].name, score |-> QualityScore(listed[k])]],
        table |-> TableRows(models_data),
        best |-> models_data[1].name]

\* _generate_markdown_report: the ranking line lists every model with its pass rate
GenerateMarkdownReport(models_data) ==
    [template |-> "rag",
     ranking |-> [k \in 1..Len(models_data) |->
                    [name |-> models_data[k].name,
                     score |-> [num |-> models_data[k].pass_rate, den |-> 100]]],
     table |-> TableRows(models_data),
     best |-> models_data[1].name]

\* generate_summary_report: what the call does on a directory
GenerateSummaryReport(dir) ==
    IF dir.kind = "missing" THEN [raised |-> TRUE, report |-> None]
    ELSE IF Len(dir.files) = 0 THEN [raised |-> TRUE, report |-> None]
    ELSE LET parsed == ParseEvalFiles(dir.files)
         IN IF Len(parsed) = 0 THEN [raised |-> TRUE, report |-> None]
            ELSE LET models_data == SortByPassRate(parsed)
                 IN [raised |-> FALSE,
                     report |-> Some(IF DetectEvaluationType(models_data) = "summarization"
                                     THEN GenerateSummarizationReport(models_data)
                                     ELSE GenerateMarkdownReport(models_data))]

\* the names of the files of the directory, in the order of the listing
EvalFileNames == << "a.eval.json", "b.eval.json", "c.eval.json", "d.eval.json" >>

\* the judge's JSON under the rubric its prompt asked for: the comparative rubric
\* when the summary has ground truth, the standalone-quality rubric otherwise
RubricJson(rubric) ==
    IF rubric = "comparative"
    THEN [executive_summary_accuracy |-> "good"]
    ELSE [executive_summary_quality |-> "good"]

\* a per_question entry of a summarization evaluation: the judge's JSON with or
\* without a recognised overall_quality, or the entry of a judge call that failed
SummaryEntry(rubric, quality) ==
    IF quality = "error"
    THEN [analysis |-> [error |-> "Failed to parse Claude response"],
          overall_quality |-> "error"]
    ELSE IF quality = "missing"
    THEN [analysis |-> RubricJson(rubric),
          overall_quality |-> "unknown"]
    ELSE [analysis |-> RubricJson(rubric) @@ [overall_quality |-> quality],
          overall_quality |-> quality]

QualityLists ==
    { << "excellent" >>, << "poor" >>, << "good", "fair" >>, << "missing" >>,
      << "poor", "excellent" >>, << "error", "excellent" >> }

SummarizationDocuments ==
    { [overall_rating |-> [rating |-> "good",
                           metrics |-> [total_summaries |-> Len(qs)]],
       per_question |-> [k \in 1..Len(qs) |-> SummaryEntry(rubric, qs[k])]] :
        qs \in QualityLists, rubric \in { "standalone", "comparative" } }

\* Q&A evaluations: the judge's overall rating with its pass rate, and the document
\* of an analysis that failed
QaDocuments ==
    { [overall_rating |-> [rating |-> "fair", metrics |-> [pass_rate |-> p]],
       per_question |-> << [qa_inputs |-> "q1"] >>] : p \in { 0, 50, 100 } }
    \cup { [overall_rating |-> [rating |-> "error"], per_question |-> <<>>] }

EvalContents ==
    { [parsable |-> FALSE] }
    \cup { [parsable |-> TRUE, data |-> d] : d \in SummarizationDocuments \cup QaDocuments }

EvalListings ==
    UNION { [1..n -> EvalContents] : n \in 0..MaxEvalFiles }

NamedFile(content, k) ==
    IF content.parsable
    THEN [name |-> EvalFileNames[k], parsable |-> TRUE, data |-> content.data]
    ELSE [name |-> EvalFileNames[k], parsable |-> FALSE]

EvalDirs ==
    { [kind |-> "missing"] }
    \cup { [kind |-> "directory", files |-> [k \in 1..Len(l) |-> NamedFile(l[k], k)]] :
            l \in EvalListings }

ReportInit ==
    /\ RunnerIdle
    /\ epc = "report_called"
    /\ similarity = 0
    /\ threshold = 0
    /\ claude_analysis = None
    /\ verdict = None
    /\ qa_results = <<>>
    /\ q = 0
    /\ analysis = <<>>
    /\ judge_log = <<>>
    /\ judge_raised = None
    /\ eval_dir \in EvalDirs
    /\ request = None
    /\ report = None

\* the call of generate_summary_report
GenerateReport ==
    /\ epc = "report_called"
    /\ LET outcome == GenerateSummaryReport(eval_dir)
       IN /\ epc' = IF outcome.raised THEN "report_raised" ELSE "report_returned"
          /\ report' = outcome.report
    /\ UNCHANGED << runVars, similarity, threshold, claude_analysis, verdict, qa_results, q,
                    analysis, judge_log, judge_raised, eval_dir, request >>

ReportNext == GenerateReport

ReportSpec == ReportInit /\ [][ReportNext]_vars

(***************************************************************************)
(* generate_enhanced_report: the evaluation of one result document.  The    *)
(* file system is files, keyed by the path as a string.                     *)
(***************************************************************************)
\* str(Path(dir) / name)
PathOf(dir, name) == dir \o "/" \o name

\* mutant: the evaluation is written under the name of the results file
EvalJsonPath_SameName(results_name, output_dir) == PathOf(output_dir, results_name)

\* json_path = output_path / f"{Path(results_filename).stem}.eval.json"
EvalJsonPath(results_name, output_dir) ==
    PathOf(output_dir, Stem(results_name) \o ".eval.json")

\* the result documents an evaluation is asked for, as run_experiment writes them
ResultDocuments ==
    { OutputData([name |-> << "a" >>, llm_type |-> "claude", experiment_type |-> t],
                 <<>>, <<>>, ZeroUsage, ZeroCost, <<>>) : t \in { "qa", "summarization" } }

\* the names a results file may have
ResultNames ==
    { "a.experiment.json", "a.json", "a.eval.json", "a.experiment.eval.json", "a",
      ".json", "a." }

\* generate_enhanced_report(results_path, output_dir): the results file in directory
\* "out", the output directory absent, that directory or another one
EnhancedRequests ==
    [dir : { "out" }, name : ResultNames, output_dir : { None, Some("out"), Some("evals") }]

\* evaluation_data
EvaluationData(results_path, claude) ==
    [metadata |-> [original_results_file |-> results_path], claude_analysis |-> claude]

\* the file systems of a request: the results file missing or holding a result
\* document, and an earlier evaluation of it present or not
EnhancedFiles(req) ==
    LET written == { <<>> } \cup { PathOf(req.dir, req.name) :> d : d \in ResultDocuments }
        earlier == { <<>>, EvalJsonPath(req.name, "out") :>
                            EvaluationData(PathOf(req.dir, req.name), EmptyAnalysis) }
    IN { r @@ e : r \in written, e \in earlier }

\* what analyze_with_claude returns: it reads the results file and never raises; the
\* except branch turns a failure (a missing file as well) into an error dictionary
AnalyzeWithClaude(fs, results_path) ==
    IF results_path \notin DOMAIN fs
    THEN { ErrorAnalysis(<< "No", "such", "file" >>) }
    ELSE { [EmptyAnalysis EXCEPT !.overall_rating = "good"],
           ErrorAnalysis(<< "timeout" >>) }

EnhancedInit ==
    /\ config_data = <<>>
    /\ delay_seconds = DefaultDelay
    /\ mode = "none"
    /\ experiments = <<>>
    /\ input = [kind |-> "none"]
    /\ queries_source = None
    /\ exp_i = 1
    /\ data_items = <<>>
    /\ pc = "idle"
    /\ i = 0
    /\ j = 0
    /\ cur = EmptyResult
    /\ results = <<>>
    /\ total_usage = ZeroUsage
    /\ total_cost = ZeroCost
    /\ errors = <<>>
    /\ result_files = <<>>
    /\ ok_usage = ZeroUsage
    /\ ok_cost = ZeroCost
    /\ calls = <<>>
    /\ epc = "enhanced_called"
    /\ similarity = 0
    /\ threshold = 0
    /\ claude_analysis = None
    /\ verdict = None
    /\ qa_results = <<>>
    /\ q = 0
    /\ analysis = <<>>
    /\ judge_log = <<>>
    /\ judge_raised = None
    /\ eval_dir = [kind |-> "none"]
    /\ report = None
    /\ request \in EnhancedRequests
    /\ files \in EnhancedFiles(request)

\* the call of generate_enhanced_report: analyze, then write the evaluation when an
\* output directory is given
GenerateEnhancedReport ==
    /\ epc = "enhanced_called"
    /\ \E claude \in AnalyzeWithClaude(files, PathOf(request.dir, request.name)) :
        /\ claude_analysis' = Some(claude)
        /\ files' = IF request.output_dir # None
                    THEN (EvalJsonPath(request.name, request.output_dir[1]) :>
                            EvaluationData(PathOf(request.dir, request.name), claude))
                         @@ files
                    ELSE files
    /\ epc' = "enhanced_returned"
    /\ UNCHANGED << config_data, delay_seconds, mode, experiments, input, queries_source,
                    exp_i, data_items, pc, i, j, cur, results, total_usage, total_cost,
                    errors, result_files, ok_usage, ok_cost, calls >>
    /\ UNCHANGED << similarity, threshold, verdict, qa_results, q, analysis, judge_log,
                    judge_raised, eval_dir, report, request >>

EnhancedNext == GenerateEnhancedReport

EnhancedSpec == EnhancedInit /\ [][EnhancedNext]_vars

(***************************************************************************)
(* Properties of _analyze_qa_results                                       *)
(***************************************************************************)
\* the per_question entries of the judged questions are in the returned document
EntriesKept == judge_raised = None \/ IsOverload(judge_raised[1])

\* the response has no "{" that a "}" follows, or what lies between the first "{" and
\* the last "}" is not valid JSON
Unparsable(ts) ==
    \/ ~ \E a, b \in 1..Len(ts) : a < b /\ ts[a] = "{" /\ ts[b] = "}"
    \/ ~ JsonLoads(SubSeq(ts, JsonStart(ts) + 1, RFind(ts, "}") + 1)).ok

\* the entry carries the similarity-only verdict of its question
SimilarityOnlyEntry(entry, qa) ==
    /\ "qa_inputs" \in DOMAIN entry
    /\ entry.qa_inputs.criteria = "similarity_only"
    /\ entry.qa_inputs.is_pass = (qa.similarity >= threshold)
    /\ "scores" \notin DOMAIN entry.qa_inputs

\* C9: a question whose judge response has no brace-delimited span, or whose span is not
\* valid JSON, still gets a per_question entry with the similarity-only verdict (is_pass
\* iff similarity >= threshold, criteria similarity_only); judging goes on with the next
\* question, and a run in which no judge call raised returns one entry per question and
\* no error rating.
C9_UnparsableJudgmentFallsBack ==
    /\ epc = "judging" => Len(analysis.per_question) = q /\ Len(judge_log) = q
    /\ EntriesKept =>
          \A k \in 1..Len(judge_log) :
              Unparsable(judge_log[k]) =>
                  /\ k <= Len(analysis.per_question)
                  /\ SimilarityOnlyEntry(analysis.per_question[k], qa_results[k])
    /\ epc = "returned" /\ judge_raised = None /\ qa_results # <<>> =>
          /\ Len(analysis.per_question) = Len(qa_results)
          /\ analysis.overall_rating # "error"

\* the first question's response was unparsable and its similarity met the threshold;
\* the second question was then judged on its rubric and the evaluation returned
C9_Witness ==
    /\ epc = "returned"
    /\ judge_raised = None
    /\ Len(judge_log) = 2
    /\ Unparsable(judge_log[1])
    /\ qa_results[1].similarity >= threshold
    /\ analysis.per_question[1].qa_inputs.is_pass
    /\ analysis.per_question[1].qa_inputs.criteria = "similarity_only"
    /\ judge_log[2] = GoodRubric
    /\ analysis.per_question[2].qa_inputs.criteria = "comprehensive"

RECURSIVE BalancedEnd(_, _, _)
\* the position of the "}" that closes the "{" at position k - when depth braces are
\* open before k -, or 0 when it is never closed
BalancedEnd(ts, k, depth) ==
    IF k > Len(ts) THEN 0
    ELSE IF ts[k] = "{" THEN BalancedEnd(ts, k + 1, depth + 1)
    ELSE IF ts[k] = "}" THEN IF depth = 1 THEN k ELSE BalancedEnd(ts, k + 1, depth - 1)
    ELSE BalancedEnd(ts, k + 1, depth)

\* the text has a first balanced {...} span
HasBalancedSpan(ts) == JsonStart(ts) >= 0 /\ BalancedEnd(ts, JsonStart(ts) + 1, 0) > 0

\* the first balanced {...} span of the text
FirstBalancedSpan(ts) == SubSeq(ts, JsonStart(ts) + 1, BalancedEnd(ts, JsonStart(ts) + 1, 0))

\* a rubric object: criteria only, each an object with a rating, correctness among them
ValidRubric(d) ==
    /\ "correctness" \in DOMAIN d
    /\ \A c \in DOMAIN d :
          /\ c \in CriteriaSet
          /\ d[c].kind = "dict"
          /\ "rating" \in DOMAIN d[c].v
          /\ d[c].v["rating"].kind = "str"

\* the first balanced span of the text is a valid rubric object
FirstSpanIsRubric(ts) ==
    /\ HasBalancedSpan(ts)
    /\ JsonLoads(FirstBalancedSpan(ts)).ok
    /\ ValidRubric(JsonLoads(FirstBalancedSpan(ts)).val)

\* the entry of a question was judged on the rubric d
JudgedOn(entry, qa, d) ==
    /\ "analysis" \in DOMAIN entry
    /\ entry.analysis = d
    /\ entry.qa_inputs = QaInputs(qa, threshold, DeterminePassFail(qa.similarity, threshold, Some(d)))

\* C10 as stated: for every response whose first balanced {...} span is a valid rubric
\* object, that rubric is used for the verdict of the question, whatever follows the
\* span in the text (further braces, a second object).
C10_Original ==
    EntriesKept =>
        \A k \in 1..Len(judge_log) :
            FirstSpanIsRubric(judge_log[k]) =>
                JudgedOn(analysis.per_question[k], qa_results[k],
                         JsonLoads(FirstBalancedSpan(judge_log[k])).val)

\* a closing brace follows the first balanced span of the text
ClosingBraceFollows(ts) ==
    \E k \in (BalancedEnd(ts, JsonStart(ts) + 1, 0) + 1)..Len(ts) : ts[k] = "}"

\* C10 (amended): the judge parses what lies between the first "{" and the last "}" of
\* the response.  A response whose first balanced {...} span is a valid rubric object
\* is judged on that rubric when no closing brace follows the span, even when text or
\* opening braces follow it; when a closing brace follows it (a second object, a stray
\* "}"), the question gets the similarity-only verdict instead.
C10_SpanToLastBraceIsUsed ==
    EntriesKept =>
        \A k \in 1..Len(judge_log) :
            FirstSpanIsRubric(judge_log[k]) =>
                IF ClosingBraceFollows(judge_log[k])
                THEN SimilarityOnlyEntry(analysis.per_question[k], qa_results[k])
                ELSE JudgedOn(analysis.per_question[k], qa_results[k],
                              JsonLoads(FirstBalancedSpan(judge_log[k])).val)

\* a response whose rubric rates correctness good is followed by an opening brace: the
\* question passes on the rubric although its similarity is below the threshold
C10_Witness ==
    /\ Len(judge_log) >= 1
    /\ EntriesKept
    /\ judge_log[1] = GoodRubric \o << "{" >>
    /\ qa_results[1].similarity < threshold
    /\ analysis.per_question[1].qa_inputs.criteria = "comprehensive"
    /\ analysis.per_question[1].qa_inputs.is_pass

\* the message carries the overload signal: "529", or "overloaded" in some letter case
OverloadSignal(msg) ==
    \E k \in 1..Len(msg) : msg[k] \in {"529", "overloaded", "Overloaded", "OVERLOADED"}

\* the entry that the returned document holds for the k-th QA result after an overload
LastEntryOf(k) ==
    analysis.per_question[Len(analysis.per_question) - Len(qa_results) + k]

\* C11: when a judge call - of any question or the overall one - fails with a message
\* that contains "529" or "overloaded" in any letter case, judging returns a document
\* rated "pending" in which every QA result has an entry with the similarity-only
\* verdict; a failure without that signal gives a document rated "error" whose
\* per_question list is empty.
C11_OverloadDegradesToPending ==
    judge_raised # None =>
        /\ epc = "returned"
        /\ IF OverloadSignal(judge_raised[1])
           THEN /\ analysis.overall_rating = "pending"
                /\ Len(analysis.per_question) >= Len(qa_results)
                /\ \A k \in 1..Len(qa_results) :
                      SimilarityOnlyEntry(LastEntryOf(k), qa_results[k])
           ELSE /\ analysis.overall_rating = "error"
                /\ analysis.per_question = <<>>

\* the overall-analysis call after two judged questions failed with "API Overloaded"
C11_Witness ==
    /\ judge_raised = Some(<< "API", "Overloaded" >>)
    /\ Len(qa_results) = 2
    /\ q = 2
    /\ epc = "returned"
    /\ analysis.overall_rating = "pending"
    /\ qa_results[1].similarity >= threshold
    /\ LastEntryOf(1).qa_inputs.is_pass

(***************************************************************************)
(* Properties of the per-item processing of run_experiment                 *)
(***************************************************************************)
\* the position in results of the entry of the k-th work item
ResultIndex(k) == Cardinality({ m \in 1..k : data_items[m].type \in SupportedKinds })

\* the six components of a summary, as the claim lists them
SixComponents ==
    << "executive_summary", "detailed_summary", "action_items",
       "key_decisions", "participants", "topics_discussed" >>

\* C12: for every summarization work item the runner issues exactly six completion
\* calls, one per component in the listed order, whichever of them fail; the item's
\* generated_summaries has exactly the six keys, a failed component holding
\* "ERROR: <message>" and the others the generated text.
C12_SixCallsPerSummarizationItem ==
    /\ pc = "calls" /\ item.type = "summarization" =>
          /\ Len(calls[i + 1].log) = j
          /\ j <= 6
          /\ \A n \in 1..j : calls[i + 1].log[n].label = SixComponents[n]
    /\ \A k \in 1..i :
          data_items[k].type = "summarization" =>
              /\ Len(calls[k].log) = 6
              /\ \A n \in 1..6 : calls[k].log[n].label = SixComponents[n]
              /\ DOMAIN results[ResultIndex(k)].generated_summaries =
                    { SixComponents[n] : n \in 1..6 }
              /\ \A n \in 1..6 :
                    results[ResultIndex(k)].generated_summaries[SixComponents[n]] =
                        IF calls[k].log[n].failed
                        THEN "ERROR: " \o calls[k].log[n].msg
                        ELSE "answer"

\* a summarization item whose first and last components failed and whose other four
\* were generated is in the written document
C12_Witness ==
    /\ Returned
    /\ \E k \in 1..Len(data_items) :
          /\ data_items[k].type = "summarization"
          /\ calls[k].log[1].failed /\ calls[k].log[6].failed
          /\ \A n \in 2..5 : ~calls[k].log[n].failed
          /\ Entries(Document)[ResultIndex(k)].generated_summaries["executive_summary"] =
                "ERROR: overloaded"
          /\ Entries(Document)[ResultIndex(k)].generated_summaries["participants"] = "answer"

RECURSIVE ItemUsageSum(_)
\* the sum, over the first k work items, of the usage their successful calls reported
ItemUsageSum(k) ==
    IF k = 0 THEN ZeroUsage ELSE Accumulate(ItemUsageSum(k - 1), calls[k].usage)

\* the qa_results entry the claim expects for a logged call
ExpectedQaResult(call) ==
    [query |-> call.label,
     response |-> IF call.failed THEN "ERROR: " \o call.msg ELSE "answer"]

\* C13: for every qa_raw work item the runner issues exactly one completion call per
\* query, in query order; a failed query records "ERROR: <message>" as its response and
\* the remaining queries are still asked, so qa_results has one {query, response} entry
\* per query in the original order; the usage of the item that is folded into the
\* experiment total is the sum of the usage of its successful queries.
C13_OneCallPerQueryOfRawItem ==
    /\ pc = "calls" /\ item.type = "qa_raw" =>
          /\ Len(calls[i + 1].log) = j
          /\ \A n \in 1..j : calls[i + 1].log[n].label = item.queries[n]
          /\ cur.qa_results = [n \in 1..j |-> ExpectedQaResult(calls[i + 1].log[n])]
          /\ cur.usage = calls[i + 1].usage
    /\ \A k \in 1..i :
          data_items[k].type = "qa_raw" =>
              /\ Len(calls[k].log) = Len(data_items[k].queries)
              /\ results[ResultIndex(k)].qa_results =
                    [n \in 1..Len(data_items[k].queries) |->
                        [query |-> data_items[k].queries[n],
                         response |-> ExpectedQaResult(calls[k].log[n]).response]]
    /\ pc = "loop" => total_usage = ItemUsageSum(i)

\* a qa_raw item with two queries, the first failed and the second answered, is in the
\* written document and the usage of the second query is in the total
C13_Witness ==
    /\ Returned
    /\ \E k \in 1..Len(data_items) :
          /\ data_items[k].type = "qa_raw"
          /\ Len(data_items[k].queries) = 2
          /\ calls[k].log[1].failed /\ ~calls[k].log[2].failed
          /\ Entries(Document)[ResultIndex(k)].qa_results[1].response = "ERROR: overloaded"
          /\ Entries(Document)[ResultIndex(k)].qa_results[2].response = "answer"
          /\ calls[k].usage.total_tokens > 0
          /\ Document.metadata.total_usage = ItemUsageSum(Len(data_items))

\* the text starts with the prefix
StartsWith(text, prefix) ==
    Len(text) >= Len(prefix) /\ SubSeq(text, 1, Len(prefix)) = prefix

\* the error-list entry names the k-th work item
LocatesItem(entry, k) == StartsWith(entry, "Item " \o ToString(k) \o ": ")

Unsupported(k) == data_items[k].type \notin SupportedKinds

Mentions(text, word) ==
    \E a \in 1..(Len(text) - Len(word) + 1) : SubSeq(text, a, a + Len(word) - 1) = word

\* C15: every entry of metadata.errors names, by its 1-based index in the input list,
\* a work item that had a failed call, and for a summarization item it names each
\* failed component; every work item with a failed call has an entry that names it.
C15_EveryFailureIsLocated ==
    Returned =>
        /\ \A n \in 1..Len(Document.metadata.errors) :
              \E k \in 1..Len(data_items) :
                  /\ LocatesItem(Document.metadata.errors[n], k)
                  /\ calls[k].failed > 0
                  /\ data_items[k].type = "summarization" =>
                        \A m \in 1..Len(calls[k].log) :
                            calls[k].log[m].failed =>
                                Mentions(Document.metadata.errors[n], calls[k].log[m].label)
        /\ \A k \in 1..Len(data_items) :
              calls[k].failed > 0 =>
                  \E n \in 1..Len(Document.metadata.errors) :
                      LocatesItem(Document.metadata.errors[n], k)

(***************************************************************************)
(* Properties of load_config                                               *)
(***************************************************************************)
\* the entry names a task kind other than "qa" and "summarization"
OtherTaskKind(exp_data) ==
    /\ "experiment_type" \in DOMAIN exp_data
    /\ exp_data["experiment_type"] \notin {"qa", "summarization"}

\* C16: a catalog entry whose experiment_type is neither "qa" nor "summarization" makes
\* the construction of its ExperimentConfig fail and with it the loading of the whole
\* catalog, before any experiment runs; no ExperimentConfig of another task kind exists.
C16_OtherTaskKindFailsTheLoad ==
    /\ \A k \in 1..Len(config_data) :
          OtherTaskKind(config_data[k]) =>
              /\ Len(experiments) < k
              /\ pc \in {"config", "config_raised"}
              /\ calls = <<>> /\ files = <<>> /\ result_files = <<>>
    /\ pc = "config_raised" => OtherTaskKind(config_data[Len(experiments) + 1])
    /\ \A k \in 1..Len(experiments) :
          experiments[k].experiment_type \in {"qa", "summarization"}

\* the first entry was constructed, the second names the task kind "classification"
\* and the load has failed
C16_Witness ==
    /\ pc = "config_raised"
    /\ Len(config_data) = 2
    /\ Len(experiments) = 1
    /\ config_data[2]["experiment_type"] = "classification"
    /\ files = <<>>

(***************************************************************************)
(* Properties of load_data_from_source                                     *)
(***************************************************************************)
\* the task kind the loader is asked for
RequestedKind == experiments[1].experiment_type

\* the file holds nothing but white space
BlankContent(content) == content \in {"", " "}

\* the cases the claim lists: no matching file in the directory, no such path, a
\* blank transcript file, a ground-truth file without the section of the task kind
NothingToLoad ==
    \/ input.kind = "directory" /\ input.txt = <<>>
    \/ input.kind = "missing"
    \/ input.kind = "transcript" /\ BlankContent(input.content)
    \/ input.kind = "groundtruth" /\ RequestedKind = "qa" /\ input.qa_pairs = <<>>
    \/ input.kind = "groundtruth" /\ RequestedKind = "summarization" /\ ~input.summaries

\* C17: the loader never returns an empty list: a directory with no matching transcript
\* file, a path that does not exist, a blank transcript file and a ground-truth file
\* without the section of the requested task kind each make load_data_from_source
\* raise instead of returning items.
C17_LoaderNeverReturnsEmpty ==
    /\ pc = "load_returned" => data_items # <<>>
    /\ pc # "load_called" /\ NothingToLoad => pc = "load_raised" /\ data_items = <<>>

\* the call on a directory without *.txt files has raised
C17_Witness ==
    /\ pc = "load_raised"
    /\ input.kind = "directory"
    /\ input.txt = <<>>

NotEmptyString(x) == x # ""

\* the five default questions
FiveDefaultQuestions ==
    << "What were the main topics discussed in this meeting?",
       "What action items were assigned and to whom?",
       "What decisions were made during this meeting?",
       "Who participated in this meeting and what were their roles?",
       "What are the next steps or follow-up items?" >>

\* C18: every work item the loader returns satisfies the data-model invariant: a
\* qa_raw or summarization item has a non-empty transcript, and a qa_raw item has a
\* non-empty ordered query list - the five default questions when no queries source is
\* given, otherwise the non-empty queries of the pairs of the source in file order.
C18_LoadedItemsAreWellFormed ==
    pc = "load_returned" =>
        \A k \in 1..Len(data_items) :
            /\ data_items[k].type \in {"qa_raw", "summarization"} =>
                  ~BlankContent(data_items[k].transcript)
            /\ data_items[k].type = "qa_raw" =>
                  /\ data_items[k].queries # <<>>
                  /\ data_items[k].queries =
                        IF queries_source = None THEN FiveDefaultQuestions
                        ELSE SelectSeq(queries_source[1], NotEmptyString)

\* two transcript files were loaded for Q&A with the queries of a source whose second
\* pair has no query
C18_Witness ==
    /\ pc = "load_returned"
    /\ Len(data_items) = 2
    /\ queries_source = Some(<< "q2", "", "q1" >>)
    /\ data_items[1].type = "qa_raw"
    /\ data_items[1].transcript = "t"
    /\ data_items[1].queries = << "q2", "q1" >>

(***************************************************************************)
(* Properties of generate_summary_report                                    *)
(***************************************************************************)

\* the report call is over
ReportDone == epc \in { "report_returned", "report_raised" }

\* the evaluation documents of the directory that can be parsed
DocumentsOf(dir) ==
    IF dir.kind = "directory" THEN SelectSeq(dir.files, LAMBDA f : f.parsable) ELSE <<>>

\* the model a file stands for
NameOfFile(f) ==
    CHOOSE s \in { "a", "b", "c", "d" } : f.name = s \o ".eval.json"

NamesListed(ranking) == [k \in 1..Len(ranking) |-> ranking[k].name]

RatedQualities == { "excellent", "good", "fair", "poor" }

\* a summarization evaluation none of whose summaries has a recognised overall_quality
UnratedSummarization(doc) ==
    /\ Len(doc.data.per_question) > 0
    /\ "analysis" \in DOMAIN doc.data.per_question[1]
    /\ "executive_summary_quality" \in DOMAIN doc.data.per_question[1].analysis
    /\ \A k \in 1..Len(doc.data.per_question) :
            LET entry == doc.data.per_question[k]
            IN "analysis" \in DOMAIN entry /\ "overall_quality" \in DOMAIN entry.analysis
                    => entry.analysis.overall_quality \notin RatedQualities

ScoreAtLeast(a, b) == a.num * b.den >= b.num * a.den

\* C20: the ranking line is in descending order of score (pass rate for Q&A, weighted
\* quality score for summarization), and the best performer is a listed model with
\* the highest score
C20_RankingIsDescending ==
    report # None =>
        LET ranking == report[1].ranking
        IN /\ \A k \in 1..Len(ranking) - 1 :
                ScoreAtLeast(ranking[k].score, ranking[k + 1].score)
           /\ ranking # <<>> =>
                \E k \in 1..Len(ranking) :
                    /\ ranking[k].name = report[1].best
                    /\ \A l \in 1..Len(ranking) :
                            ScoreAtLeast(ranking[k].score, ranking[l].score)

\* the part of C20 about Q&A reports
QaRankingIsDescending ==
    report # None /\ report[1].template = "rag" => C20_RankingIsDescending

\* the fields of the two rubrics of summarization judging
StandaloneFields ==
    { "executive_summary_quality", "detail_completeness", "action_items_structure",
      "key_decisions_clarity", "participant_information", "topic_organization" }

ComparativeFields ==
    { "executive_summary_accuracy", "completeness", "action_items_accuracy",
      "key_decisions_accuracy", "participant_identification", "topic_coverage" }

\* the first record of the first evaluation document of the sorted list
FirstRecord ==
    LET first == CHOOSE f \in { eval_dir.files[k] : k \in 1..Len(eval_dir.files) } :
                    f.parsable /\ NameOfFile(f) = report[1].best
    IN first.data.per_question[1]

\* the first document has a first record
HasFirstRecord ==
    /\ report # None
    /\ \E k \in 1..Len(eval_dir.files) :
            /\ eval_dir.files[k].parsable
            /\ NameOfFile(eval_dir.files[k]) = report[1].best
            /\ Len(eval_dir.files[k].data.per_question) > 0

\* the record holds the judge's JSON of a summary, under either rubric
JudgedSummary(record) ==
    /\ "analysis" \in DOMAIN record
    /\ (StandaloneFields \cup ComparativeFields) \cap DOMAIN record.analysis # {}

\* the record is an entry of Q&A judging
JudgedQuestion(record) == "qa_inputs" \in DOMAIN record

\* C21: a directory whose first document holds summaries judged under the comparative
\* or the standalone rubric is reported as a summarization evaluation, and one whose
\* first document holds judged questions as a Q&A evaluation
C21_DetectionMatchesJudging ==
    HasFirstRecord =>
        /\ JudgedSummary(FirstRecord) => report[1].template = "summarization"
        /\ JudgedQuestion(FirstRecord) => report[1].template = "rag"

\* the parts of C21 that hold: the standalone rubric and Q&A judging
DetectionOfStandaloneAndQa ==
    HasFirstRecord =>
        /\ StandaloneFields \cap DOMAIN Get(FirstRecord, "analysis", <<>>) # {}
                => report[1].template = "summarization"
        /\ JudgedQuestion(FirstRecord) => report[1].template = "rag"

(***************************************************************************)
(* Properties of the result file name                                      *)
(***************************************************************************)
\* the characters of a string
Chars(str) == [k \in 1..Len(str) |-> SubSeq(str, k, k)]

KeptChars == { "a", "b", "e", "1", "2", " ", "-", "_" }

\* the file name the claim describes, as characters: the kept characters of the name
\* up to the last one that is not a space, spaces turned into underscores, then the
\* suffix
ExpectedFileName(name) ==
    LET kept == SelectSeq(name, LAMBDA c : c \in KeptChars)
        solid == { k \in 1..Len(kept) : kept[k] # " " }
        last == IF solid = {} THEN 0 ELSE CHOOSE k \in solid : \A l \in solid : l <= k
    IN [k \in 1..last |-> IF kept[k] = " " THEN "_" ELSE kept[k]]
       \o Chars(".experiment.json")

\* C22: every document is written to the file named after its experiment alone (the
\* name's characters other than alphanumerics, space, hyphen and underscore removed,
\* trailing spaces stripped, spaces replaced by underscores, then ".experiment.json"),
\* and two runs of one name give one path
C22_FileNameIsFunctionOfName ==
    /\ \A k \in 1..Len(result_files) :
            Chars(result_files[k]) = ExpectedFileName(experiments[k].name)
    /\ \A f \in DOMAIN files :
            \E k \in 1..Len(experiments) : Chars(f) = ExpectedFileName(experiments[k].name)
    /\ \A k, l \in 1..Len(result_files) :
            experiments[k].name = experiments[l].name => result_files[k] = result_files[l]

\* a run of two experiments of one name, which holds a space that is replaced and a
\* character that is removed
C22_Witness ==
    /\ pc = "all_returned"
    /\ Len(result_files) = 2
    /\ experiments[1].name = << " ", "/" >>
    /\ experiments[2].name = << " ", "/" >>
    /\ result_files = << ".experiment.json", ".experiment.json" >>

\* a name whose inner space becomes an underscore and whose removed character uncovers
\* nothing to strip
C22_SpaceWitness ==
    /\ pc = "all_returned"
    /\ experiments[1].name = << " ", "a" >>
    /\ result_files[1] = "_a.experiment.json"

\* C26: experiments of distinct names are persisted to distinct files, and at the end
\* of the run every experiment's own document is in the file it was persisted to
C26_DistinctNamesDistinctFiles ==
    /\ \A k, l \in 1..Len(result_files) :
            experiments[k].name # experiments[l].name => result_files[k] # result_files[l]
    /\ pc = "all_returned" =>
            \A k \in 1..Len(result_files) :
                \/ \E l \in 1..Len(result_files) :
                        l # k /\ experiments[l].name = experiments[k].name
                \/ /\ result_files[k] \in DOMAIN files
                   /\ files[result_files[k]].metadata.experiment_name = experiments[k].name

\* two names collide
Colliding(n1, n2) == n1 # n2 /\ ExpectedFileName(n1) = ExpectedFileName(n2)

\* the claim holds of the catalogs without colliding names
DistinctFilesUnlessColliding ==
    (\A k, l \in 1..Len(experiments) :
        ~Colliding(experiments[k].name, experiments[l].name))
    => C26_DistinctNamesDistinctFiles

(***************************************************************************)
(* Properties of the delays                                                *)
(***************************************************************************)
\* the items after which the loop has slept
DelayedItems == { k \in 1..Len(calls) : calls[k].delay > 0 }

\* C23 (as stated): with a positive delay and n items, the returned run has slept
\* exactly n-1 times, after every item but the last, skipped items included
C23_Original ==
    Returned /\ delay_seconds > 0 /\ data_items # <<>> =>
        /\ Cardinality(DelayedItems) = Len(data_items) - 1
        /\ \A k \in 1..Len(data_items) - 1 : calls[k].delay = delay_seconds
        /\ calls[Len(data_items)].delay = 0

\* C23: with a positive delay, the loop sleeps for the delay after every item that it
\* processes, failed calls or not, except the last item of the list; it sleeps
\* neither after a skipped item nor after the last item
C23_DelayAfterProcessedItemsButLast ==
    delay_seconds > 0 =>
        \A k \in 1..i :
            calls[k].delay = IF k < Len(data_items) /\ data_items[k].type \in SupportedKinds
                             THEN delay_seconds
                             ELSE 0

\* a returned run of three items: the first has a failed call and is followed by the
\* delay, the second is skipped without a delay, the third is the last
C23_Witness ==
    /\ Returned
    /\ delay_seconds > 0
    /\ Len(data_items) = 3
    /\ calls[1].failed > 0
    /\ calls[1].delay = delay_seconds
    /\ data_items[2].type \notin SupportedKinds
    /\ calls[2].delay = 0
    /\ data_items[3].type \in SupportedKinds
    /\ calls[3].delay = 0

\* the visited summarization items
SummarizationItems ==
    { k \in 1..Len(calls) : data_items[k].type = "summarization" }

\* C24: within a summarization item, a delay is slept between every two consecutive
\* component calls, also when the earlier of the two failed
C24_DelayBetweenComponentCalls ==
    \A k \in SummarizationItems :
        \A c \in 1..Len(calls[k].log) - 1 : calls[k].log[c].slept > 0

\* the part of C24 that holds: a delay follows every component call that succeeded
DelayAfterSuccessfulComponentCall ==
    \A k \in SummarizationItems :
        \A c \in 1..Len(calls[k].log) :
            calls[k].log[c].slept = IF calls[k].log[c].failed THEN 0 ELSE 5

(***************************************************************************)
(* Properties of generate_enhanced_report                                  *)
(***************************************************************************)
\* the path of the results file of the call
ResultsPath == PathOf(request.dir, request.name)

\* C25: a step of the evaluation leaves the results file as it is, and a file it
\* writes is <stem>.eval.json in the output directory, a path other than the
\* results file's
C25_ResultDocumentIsOnlyRead ==
    [][ /\ ResultsPath \in DOMAIN files =>
            ResultsPath \in DOMAIN files' /\ files'[ResultsPath] = files[ResultsPath]
        /\ ResultsPath \notin DOMAIN files => ResultsPath \notin DOMAIN files'
        /\ \A p \in DOMAIN files' :
               (p \notin DOMAIN files \/ files'[p] # files[p]) =>
                    /\ request.output_dir # None
                    /\ p # ResultsPath
                    /\ p = request.output_dir[1] \o "/" \o Stem(request.name) \o ".eval.json"
      ]_vars

\* the evaluation was written into the directory of the results file, whose name
\* ends in ".eval.json" itself, and the result document is still there
C25_Witness ==
    /\ epc = "enhanced_returned"
    /\ request.output_dir = Some(request.dir)
    /\ request.name = "a.eval.json"
    /\ ResultsPath \in DOMAIN files
    /\ files[ResultsPath] \in ResultDocuments
    /\ "out/a.eval.eval.json" \in DOMAIN files

(***************************************************************************)
(* Properties of the overload-degraded evaluation                          *)
(***************************************************************************)
\* judging has returned the document of the overload handler
Degraded ==
    epc = "returned" /\ judge_raised # None /\ OverloadSignal(judge_raised[1])

\* C27: the degraded document has exactly one per_question entry for each QA result,
\* in the order of the input, at whichever question the overload occurred
C27_DegradedHasOneEntryPerQuestion ==
    Degraded =>
        /\ Len(analysis.per_question) = Len(qa_results)
        /\ \A k \in 1..Len(qa_results) :
                /\ analysis.per_question[k].qa_inputs.query = qa_results[k].query
                /\ analysis.per_question[k].qa_inputs.similarity = qa_results[k].similarity

\* the part of C27 that holds: an overload at the first judge call
DegradedAtFirstCallHasOneEntryPerQuestion ==
    Degraded /\ q = 0 => C27_DegradedHasOneEntryPerQuestion

\* what the handler does: the raw entries of all QA results follow the entries of the
\* questions judged before the overload
DegradedKeepsJudgedEntries ==
    Degraded =>
        /\ Len(analysis.per_question) = q + Len(qa_results)
        /\ \A k \in 1..Len(qa_results) :
                "status" \in DOMAIN analysis.per_question[q + k]

(***************************************************************************)
(* Properties of the analysis buckets                                      *)
(***************************************************************************)
\* the bucket that matches the shape of a result entry
BucketOfShape(entry) ==
    IF "qa_results" \in DOMAIN entry THEN "transcript_qa_results"
    ELSE IF "generated_summaries" \in DOMAIN entry THEN "summarization_results"
    ELSE "qa_results"

\* all entries of all buckets of a document
StoredEntries(doc) ==
    UNION { { << b, k >> : k \in 1..Len(doc.analysis[b]) } : b \in DOMAIN doc.analysis }

\* C28 (as stated): in the written document every result entry lies in the bucket that
\* matches its own shape, for every task kind and every list of work items
C28_Original ==
    Returned =>
        /\ \A b \in DOMAIN Document.analysis :
                \A k \in 1..Len(Document.analysis[b]) :
                    BucketOfShape(Document.analysis[b][k]) = b
        /\ Cardinality(StoredEntries(Document)) = Len(results)

\* the kind of work item a task kind is for
KindMatchesTask(kind, task) ==
    IF task = "summarization" THEN kind = "summarization" ELSE kind \in { "qa", "qa_raw" }

\* the processed items are of one kind, and of a kind the experiment's task is for
Homogeneous ==
    \A k, l \in 1..Len(data_items) :
        data_items[k].type \in SupportedKinds /\ data_items[l].type \in SupportedKinds =>
            /\ data_items[k].type = data_items[l].type
            /\ KindMatchesTask(data_items[k].type, experiment.experiment_type)

\* C28: the written document stores all result entries in one bucket, chosen by the
\* experiment's task kind and the shape of the first entry; every entry lies in the
\* bucket of its own shape when the processed items are of one kind that the task
\* kind is for
C28_OneBucketByTaskAndFirstEntry ==
    Returned =>
        LET bucket == IF experiment.experiment_type = "summarization"
                      THEN "summarization_results"
                      ELSE IF results # <<>> /\ "qa_results" \in DOMAIN results[1]
                           THEN "transcript_qa_results"
                           ELSE "qa_results"
        IN /\ DOMAIN Document.analysis = { bucket }
           /\ Document.analysis[bucket] = results
           /\ Homogeneous =>
                \A k \in 1..Len(results) : BucketOfShape(results[k]) = bucket

\* a document of a Q&A experiment whose first item is a plain question and whose
\* second is a transcript with queries: both entries lie under qa_results
C28_Witness ==
    /\ Returned
    /\ experiment.experiment_type = "qa"
    /\ Len(data_items) = 2
    /\ data_items[1].type = "qa"
    /\ data_items[2].type = "qa_raw"
    /\ DOMAIN Document.analysis = { "qa_results" }
    /\ Len(Document.analysis["qa_results"]) = 2
    /\ "qa_results" \in DOMAIN Document.analysis["qa_results"][2]

\* a document of transcripts with queries, all under transcript_qa_results
C28_HomogeneousWitness ==
    /\ Returned
    /\ experiment.experiment_type = "qa"
    /\ Len(data_items) = 2
    /\ \A k \in 1..2 : data_items[k].type = "qa_raw"
    /\ DOMAIN Document.analysis = { "transcript_qa_results" }
    /\ Len(Document.analysis["transcript_qa_results"]) = 2

\* the list that load_data_from_source hands to a run of run_experiment is homogeneous
LoadedListsAreHomogeneous == pc \in { "start", "loop", "calls", "next" } => Homogeneous


\* C29: when the rubric is not empty and its correctness rating is missing or
\* is none of excellent, good, fair and poor (compared in lower case), the
\* verdict is the comprehensive one, the correctness veto is not applied and
\* the qualitative part cannot pass, so the result is decided by the
\* similarity alone, whatever the other ratings are; an empty rubric gives the
\* "similarity_only" verdict, equally decided by the similarity alone.
KnownRatings == Spellings("excellent") \cup Spellings("good")
                    \cup Spellings("fair") \cup Spellings("poor")

CorrectnessUnusable ==
    /\ claude_analysis # None
    /\ DOMAIN Rubric # {}
    /\ \/ "correctness" \notin DOMAIN Rubric
       \/ /\ Rubric["correctness"].kind = "dict"
          /\ \/ ~HasRating("correctness")
             \/ GivenRating("correctness") \notin KnownRatings

EmptyRubric == claude_analysis # None /\ DOMAIN Rubric = {}

C29_UnusableCorrectnessLeavesSimilarity ==
    Decided =>
        /\ CorrectnessUnusable =>
              /\ ~verdict.raised
              /\ verdict.criteria = "comprehensive"
              /\ verdict.is_pass = (similarity >= threshold)
        /\ EmptyRubric =>
              /\ ~verdict.raised
              /\ verdict.criteria = "similarity_only"
              /\ verdict.is_pass = (similarity >= threshold)

\* A rubric without a correctness entry whose other ratings are the best ones,
\* with a qualitative score of at least 0.6, fails below the threshold.
C29_Witness ==
    /\ Decided
    /\ CorrectnessUnusable
    /\ "correctness" \notin DOMAIN Rubric
    /\ \A c \in {"completeness", "relevance"} :
            HasRating(c) /\ GivenRating(c) = "excellent"
    /\ HasRating("conciseness") /\ GivenRating("conciseness") = "good"
    /\ AtLeastSixTenths(verdict.scores.qualitative_normalized)
    /\ similarity < threshold
    /\ ~verdict.is_pass

C29_EmptyRubricWitness ==
    Decided /\ EmptyRubric /\ similarity >= threshold /\ verdict.is_pass


\* C30: a catalog entry whose llm_type is neither "claude" nor "lemonade" in
\* any letter case is accepted by load_config; when run_all_experiments
\* reaches it, the run raises before any item of it is processed and without
\* writing a document for it, the documents of the earlier experiments stay
\* persisted, and no later experiment is run.
UnknownBackend(e) == Lower(e.llm_type) \notin {"claude", "lemonade"}

CatalogLoaded == pc \notin {"config", "config_raised"}

ReachedUnknown ==
    /\ CatalogLoaded
    /\ exp_i <= Len(experiments)
    /\ UnknownBackend(experiments[exp_i])

\* load_config fails for an unsupported task kind only, and keeps every entry
UnknownIsAccepted ==
    /\ pc = "config_raised" =>
          ~ValidExperimentType(ExperimentTypeOf(config_data[Len(experiments) + 1]))
    /\ CatalogLoaded =>
          /\ Len(experiments) = Len(config_data)
          /\ \A k \in 1..Len(config_data) :
                /\ experiments[k].name = config_data[k].name
                /\ experiments[k].llm_type = config_data[k].llm_type

EarlierNames == { experiments[k].name : k \in 1..(exp_i - 1) }

UnknownIsNotRun ==
    ReachedUnknown =>
        /\ pc \in {"load", "start", "raised"}
        /\ Len(result_files) = exp_i - 1
        /\ \A name \in EarlierNames : ResultPath(name) \in DOMAIN files
        /\ experiments[exp_i].name \notin EarlierNames =>
              ResultPath(experiments[exp_i].name) \notin DOMAIN files
        /\ pc \in {"start", "raised"} => calls = <<>>

\* no step starts an item of it, writes a file or goes on to another
\* experiment, and nothing follows the raise
UnknownStep ==
    ReachedUnknown =>
        /\ pc # "raised"
        /\ pc' \in {"start", "raised"}
        /\ files' = files
        /\ result_files' = result_files
        /\ exp_i' = exp_i

UnknownRaised == ReachedUnknown /\ pc = "raised"

C30_UnknownBackendStopsTheBatch ==
    /\ []UnknownIsAccepted
    /\ []UnknownIsNotRun
    /\ [][UnknownStep]_vars
    /\ ReachedUnknown ~> UnknownRaised

\* the second of two experiments has an unknown backend: the run has raised
\* and the document of the first is in place
C30_Witness ==
    /\ UnknownRaised
    /\ config_data # <<>>
    /\ exp_i = 2
    /\ ~UnknownBackend(experiments[1])
    /\ experiments[1].name # experiments[2].name
    /\ DOMAIN files = { ResultPath(experiments[1].name) }
    /\ files[ResultPath(experiments[1].name)].metadata.total_items > 0

\* the first of two experiments has an unknown backend: nothing was written
C30_FirstWitness ==
    /\ UnknownRaised
    /\ config_data # <<>>
    /\ exp_i = 1
    /\ Len(experiments) = 2
    /\ ~UnknownBackend(experiments[2])
    /\ files = <<>>
    /\ result_files = <<>>

====
